---- MODULE Spec2Model ----
(***************************************************************************)
(* Orderbook analytics and replay engine of the OrderbookVisualizer        *)
(* component.  One behaviour of Spec is one mounted component: its React   *)
(* state and refs, the live sockets and history fetches it has started,    *)
(* and the timers it has scheduled.  An action is one event (a prop        *)
(* change, a socket event, a fetch outcome, a timer, a replay control)     *)
(* together with every effect React runs because of it, so that no         *)
(* half-updated state is observable.                                       *)
(*                                                                         *)
(* A price is a decimal string with two places and is written as its       *)
(* number of hundredths; parseFloat turns it into the double the program  *)
(* computes with, a record [m, e] of value m * 2^e.  Where the program     *)
(* only uses prices as Map keys the hundredths stand for the key.  Volumes *)
(* are whole numbers, which doubles add exactly; averages are kept as      *)
(* exact fractions [n, d].  Times are milliseconds.                        *)
(***************************************************************************)
EXTENDS Integers, Sequences, FiniteSets, TLC

(***************************************************************************)
(* Program constants                                                       *)
(***************************************************************************)
STALE_THRESHOLD_MS == 5000
LARGE_ORDER_THRESHOLD == 2
WHALE_THRESHOLD == 5
SPOOF_DETECTION_WINDOW == 3000
HEATMAP_HISTORY_SIZE == 30
HEATMAP_LEVELS == 15
ROLLING_WINDOW_SIZE == 100
SPOOF_ALERT_CAP == 10
FLASH_CLEAR_MS == 600
MAX_SNAPSHOTS == 300
JUMP_MS == 10000
PLAYBACK_SPEEDS == {1, 2, 4, 8}      \* 0.5x, 1x, 2x, 4x in half units
DEFAULT_SPEED == 2                   \* playbackSpeed = 1.0
TICK_SIZES == {1, 10, 100, 500, 1000, 5000, 10000}   \* in hundredths
DEPTH_RANGES == {1, 2, 5, 10, 20}
IMBALANCE_DEPTHS == {5, 10, 20, 50}
DEFAULT_IMBALANCE_DEPTH == 10
NO_FILTER_PERCENT == 20
DEFAULT_DEPTH == 20

(***************************************************************************)
(* Bounds of the model                                                     *)
(***************************************************************************)
MaxSteps == 6        \* events of one behaviour
MaxOid == 4          \* snapshot objects the feeds hand to the component
MaxNow == 2          \* clock steps taken
MaxSockets == 2      \* sockets alive at once (current one and leftovers)
MaxHist == 2         \* snapshots in a returned history
ClockStep == 2000    \* milliseconds per clock step

Symbols == {"XBT/USD", "ETH/USD"}

(***************************************************************************)
(* Sequence helpers                                                        *)
(***************************************************************************)
Min2(a, b) == IF a <= b THEN a ELSE b
Max2(a, b) == IF a >= b THEN a ELSE b

\* Array.prototype.slice(0, n)
SliceFirst(s, n) == SubSeq(s, 1, Min2(n, Len(s)))

\* variant: the n oldest entries are kept instead of the n newest
SliceOldest(s, n) == SubSeq(s, 1, Min2(n, Len(s)))

\* Array.prototype.slice(-n)
SliceLast(s, n) == SubSeq(s, Max2(1, Len(s) - n + 1), Len(s))

\* the sum of a list of integers, by halves to keep the recursion shallow
RECURSIVE SumSeq(_)
SumSeq(s) ==
  IF Len(s) = 0 THEN 0
  ELSE IF Len(s) = 1 THEN s[1]
  ELSE LET h == Len(s) \div 2
       IN  SumSeq(SubSeq(s, 1, h)) + SumSeq(SubSeq(s, h + 1, Len(s)))

\* Math.max and Math.min of a non-empty list
MaxSeq(s) == CHOOSE x \in {s[i] : i \in 1..Len(s)} :
               \A i \in 1..Len(s) : s[i] <= x

MinSeq(s) == CHOOSE x \in {s[i] : i \in 1..Len(s)} :
               \A i \in 1..Len(s) : x <= s[i]

RECURSIVE Gcd(_, _)
Gcd(a, b) == IF b = 0 THEN a ELSE Gcd(b, a % b)

\* sum / count as an exact fraction in lowest terms; 0 for an empty list
Mean(s) ==
  IF Len(s) = 0 THEN [n |-> 0, d |-> 1]
  ELSE LET g == Gcd(SumSeq(s), Len(s))
       IN  [n |-> SumSeq(s) \div g, d |-> Len(s) \div g]

Volumes(levels) == [i \in 1..Len(levels) |-> levels[i].volume]
Prices(levels) == {levels[i].price : i \in 1..Len(levels)}

(***************************************************************************)
(* Number arithmetic (IEEE-754 binary64, round to nearest even)            *)
(***************************************************************************)
\* Naturals of any size: little-endian sequences of limbs below LimbBase
\* without a leading zero limb; <<>> is 0.
LimbBits == 14
LimbBase == 2^LimbBits
MantissaBits == 53   \* significand of a double

RECURSIVE Big(_)
Big(n) == IF n = 0 THEN <<>> ELSE <<n % LimbBase>> \o Big(n \div LimbBase)

RECURSIVE BigTrim(_)
BigTrim(a) ==
  IF a # <<>> /\ a[Len(a)] = 0 THEN BigTrim(SubSeq(a, 1, Len(a) - 1)) ELSE a

BigLimb(a, i) == IF i <= Len(a) THEN a[i] ELSE 0

RECURSIVE BigAddFrom(_, _, _, _)
BigAddFrom(a, b, i, c) ==
  IF i > Len(a) /\ i > Len(b) THEN (IF c = 0 THEN <<>> ELSE <<c>>)
  ELSE LET s == BigLimb(a, i) + BigLimb(b, i) + c
       IN  <<s % LimbBase>> \o BigAddFrom(a, b, i + 1, s \div LimbBase)

BigAdd(a, b) == BigAddFrom(a, b, 1, 0)

RECURSIVE BigSubFrom(_, _, _, _)
BigSubFrom(a, b, i, br) ==
  IF i > Len(a) THEN <<>>
  ELSE LET s == a[i] - BigLimb(b, i) - br
       IN  <<(s + LimbBase) % LimbBase>>
           \o BigSubFrom(a, b, i + 1, IF s < 0 THEN 1 ELSE 0)

BigSub(a, b) == BigTrim(BigSubFrom(a, b, 1, 0))

RECURSIVE BigCmpAt(_, _, _)
BigCmpAt(a, b, i) ==
  IF i = 0 THEN 0
  ELSE IF a[i] # b[i] THEN (IF a[i] < b[i] THEN -1 ELSE 1)
  ELSE BigCmpAt(a, b, i - 1)

BigCmp(a, b) ==
  IF Len(a) # Len(b) THEN (IF Len(a) < Len(b) THEN -1 ELSE 1)
  ELSE BigCmpAt(a, b, Len(a))

RECURSIVE BigMulSmallFrom(_, _, _, _)
BigMulSmallFrom(a, k, i, c) ==
  IF i > Len(a) THEN (IF c = 0 THEN <<>> ELSE <<c>>)
  ELSE LET s == a[i] * k + c
       IN  <<s % LimbBase>> \o BigMulSmallFrom(a, k, i + 1, s \div LimbBase)

BigMulSmall(a, k) == IF k = 0 THEN <<>> ELSE BigMulSmallFrom(a, k, 1, 0)

RECURSIVE BigMulFrom(_, _, _)
BigMulFrom(a, b, i) ==
  IF i > Len(b) THEN <<>>
  ELSE BigAdd(BigMulSmall(a, b[i]), <<0>> \o BigMulFrom(a, b, i + 1))

BigMul(a, b) == BigTrim(BigMulFrom(a, b, 1))

BigShl(a, k) ==
  IF a = <<>> THEN <<>>
  ELSE [i \in 1..(k \div LimbBits) |-> 0] \o BigMulSmall(a, 2^(k % LimbBits))

BigShr(a, k) ==
  LET d == k \div LimbBits
      r == k % LimbBits
      rest == IF d >= Len(a) THEN <<>> ELSE SubSeq(a, d + 1, Len(a))
  IN  BigTrim([i \in 1..Len(rest) |->
                 (rest[i] \div 2^r)
                 + (BigLimb(rest, i + 1) % 2^r) * 2^(LimbBits - r)])

RECURSIVE BitLen(_)
BitLen(n) == IF n = 0 THEN 0 ELSE 1 + BitLen(n \div 2)

BigBitLen(a) ==
  IF a = <<>> THEN 0 ELSE (Len(a) - 1) * LimbBits + BitLen(a[Len(a)])

BigBit(a, i) == (BigLimb(a, i \div LimbBits + 1) \div 2^(i % LimbBits)) % 2

BigOdd(a) == a # <<>> /\ a[1] % 2 = 1

RECURSIVE BigDivBits(_, _, _, _)
BigDivBits(limb, d, i, qr) ==
  IF i < 0 THEN qr
  ELSE LET r2 == BigAddFrom(qr.r, qr.r, 1, (limb \div 2^i) % 2)
       IN  IF BigCmp(r2, d) >= 0
           THEN BigDivBits(limb, d, i - 1,
                           [q |-> BigAddFrom(qr.q, qr.q, 1, 1),
                            r |-> BigSub(r2, d)])
           ELSE BigDivBits(limb, d, i - 1,
                           [q |-> BigAddFrom(qr.q, qr.q, 1, 0), r |-> r2])

RECURSIVE BigDivLimbs(_, _, _, _)
BigDivLimbs(n, d, j, qr) ==
  IF j = 0 THEN qr
  ELSE BigDivLimbs(n, d, j - 1, BigDivBits(n[j], d, LimbBits - 1, qr))

BigDivMod(n, d) == BigDivLimbs(n, d, Len(n), [q |-> <<>>, r |-> <<>>])

\* Doubles: [m, e] of value m * 2^e with 2^52 <= m < 2^53, or DZero.  The
\* values of the model are positive and far from the subnormal and the
\* overflow range.
DZero == [m |-> <<>>, e |-> 0]

\* the double nearest to m * 2^e, ties to even
RoundDyadic(m, e) ==
  IF m = <<>> THEN DZero
  ELSE LET bl == BigBitLen(m)
       IN  IF bl <= MantissaBits
           THEN [m |-> BigShl(m, MantissaBits - bl),
                 e |-> e - (MantissaBits - bl)]
           ELSE LET s == bl - MantissaBits
                    q == BigShr(m, s)
                    c == BigCmp(BigSub(m, BigShl(q, s)), BigShl(<<1>>, s - 1))
                    q1 == IF c > 0 \/ (c = 0 /\ BigOdd(q))
                          THEN BigAdd(q, <<1>>) ELSE q
                IN  IF BigBitLen(q1) > MantissaBits
                    THEN [m |-> BigShr(q1, 1), e |-> e + s + 1]
                    ELSE [m |-> q1, e |-> e + s]

\* the double nearest to (n / d) * 2^e, ties to even
RoundRatio(n, d, e) ==
  IF n = <<>> THEN DZero
  ELSE LET k == Max2(0, MantissaBits + 2 + BigBitLen(d) - BigBitLen(n))
           dm == BigDivMod(BigShl(n, k), d)
       IN  RoundDyadic(BigAddFrom(dm.q, dm.q, 1, IF dm.r = <<>> THEN 0 ELSE 1),
                       e - k - 1)

NumberOf(n) == RoundDyadic(Big(n), 0)
DDiv(x, y) == RoundRatio(x.m, y.m, x.e - y.e)
DMul(x, y) == RoundDyadic(BigMul(x.m, y.m), x.e + y.e)

DAdd(x, y) ==
  IF x.m = <<>> THEN y
  ELSE IF y.m = <<>> THEN x
  ELSE LET e == Min2(x.e, y.e)
       IN  RoundDyadic(BigAdd(BigShl(x.m, x.e - e), BigShl(y.m, y.e - e)), e)

DCmp(x, y) ==
  IF x.m = <<>> \/ y.m = <<>>
  THEN (IF x.m = y.m THEN 0 ELSE IF x.m = <<>> THEN -1 ELSE 1)
  ELSE IF x.e # y.e THEN (IF x.e < y.e THEN -1 ELSE 1)
  ELSE BigCmp(x.m, y.m)

DLeq(x, y) == DCmp(x, y) <= 0
DLess(x, y) == DCmp(x, y) < 0

DAbsDiff(x, y) ==
  IF x.m = <<>> THEN y
  ELSE IF y.m = <<>> THEN x
  ELSE LET e == Min2(x.e, y.e)
           a == BigShl(x.m, x.e - e)
           b == BigShl(y.m, y.e - e)
       IN  IF BigCmp(a, b) >= 0 THEN RoundDyadic(BigSub(a, b), e)
           ELSE RoundDyadic(BigSub(b, a), e)

MathFloor(x) ==
  IF x.e >= 0 THEN x
  ELSE IF -x.e >= MantissaBits THEN DZero
  ELSE RoundDyadic(BigShr(x.m, -x.e), 0)

MathCeil(x) ==
  IF x.e >= 0 THEN x
  ELSE LET q == IF -x.e >= MantissaBits THEN <<>> ELSE BigShr(x.m, -x.e)
       IN  IF BigShl(q, -x.e) = x.m THEN RoundDyadic(q, 0)
           ELSE RoundDyadic(BigAdd(q, <<1>>), 0)

\* parseFloat of the decimal string of c hundredths; also the value of a
\* numeric literal
parseFloat(c) == RoundRatio(Big(c), Big(100), 0)

(***************************************************************************)
(* Snapshots.  oid is the identity of the JavaScript object (two messages  *)
(* with equal content are different objects), sym and src record the feed  *)
(* the object came from, ts is its timestamp.                              *)
(***************************************************************************)
NullBook == [oid |-> 0, sym |-> "", src |-> "none", ts |-> 0,
             bids |-> <<>>, asks |-> <<>>]
NullTime == -1

Level(p, v) == [price |-> p, volume |-> v]

\* six bid levels, so that one level can exceed 5 times the mean of a window
\* that holds it
CalmBids == <<Level(100, 1), Level(99, 1), Level(98, 1), Level(97, 1),
              Level(96, 1), Level(95, 1)>>
CalmAsks == <<Level(101, 1), Level(102, 1)>>
WhaleBids == <<Level(100, 26), Level(99, 1), Level(98, 1), Level(97, 1),
               Level(96, 1), Level(95, 1)>>

LiveKinds == {"calm", "whale"}

\* message.data of a snapshot message of the live feed of sym
LiveBook(sym, kind, oid) ==
  [oid |-> oid, sym |-> sym, src |-> "live", ts |-> 0,
   bids |-> IF kind = "whale" THEN WhaleBids ELSE CalmBids,
   asks |-> CalmAsks]

\* one snapshot of a history answer
HistBook(sym, ts, oid) ==
  [oid |-> oid, sym |-> sym, src |-> "replay", ts |-> ts,
   bids |-> <<Level(100, 2), Level(99, 1)>>,
   asks |-> <<Level(101, 1), Level(102, 30)>>]

HistGaps == {4000, 10000}
HistStart == 100000

\* ascending timestamps of the history answers the collaborator may give
RECURSIVE TimeLists(_)
TimeLists(n) ==
  IF n = 0 THEN {<<>>}
  ELSE IF n = 1 THEN {<<HistStart>>}
  ELSE {Append(t, t[Len(t)] + g) : t \in TimeLists(n - 1), g \in HistGaps}

HistoryAnswers(sym, oid) ==
  {[i \in 1..Len(t) |-> HistBook(sym, t[i], oid)] :
     t \in UNION {TimeLists(n) : n \in 0..MaxHist}}

(***************************************************************************)
(* State                                                                   *)
(***************************************************************************)
VARIABLES
  symbol,              \* prop: the instrument
  isReplayMode,        \* prop: replay || timeTravel
  orderbook,           \* current view, NullBook for null
  prevOrderbook,       \* previous live snapshot, NullBook for null
  connected, loading, error,
  isPlaying, currentTime, history, historyIndex, localPlaybackSpeed,
  lastUpdateTime, isStale,
  flashingPrices,      \* price -> [type, side]
  whaleOrders,         \* set of prices
  heatmapData,         \* captures [time, bids, asks]
  spoofAlerts,         \* alerts [price, maxVol, time], newest first
  volumeHistoryRef,    \* [bids, asks]: rolling volume windows
  recentLiquidityRef,  \* price -> samples [time, volume]
  rollingAvgRef,       \* [bid, ask]: rolling averages
  currentSymbolRef,
  lastProcessedRef,    \* the snapshot detection handled last
  wsRef,               \* id of the socket wsRef.current holds, 0 for none
  sockets,             \* id -> [sym, readyState, intentionalClose], alive ones
  fetches,             \* history requests not settled: [sym, aborted]
  flashTimers,         \* due times of the pending flash-clear timeouts
  now,                 \* Date.now()
  nextOid,             \* identity of the next snapshot object
  tickSize,            \* in hundredths
  depthRangePercent,
  depth,               \* prop: levels per side
  imbalanceDepth,
  receiveTime,         \* Date.now() of the snapshot message accepted last
  lastOp,              \* the event handled last
  steps                \* events handled so far

propVars == <<symbol, isReplayMode>>
viewVars == <<orderbook, prevOrderbook>>
statusVars == <<connected, loading, error, lastUpdateTime, isStale>>
replayVars == <<isPlaying, currentTime, history, historyIndex>>
detectorVars == <<flashingPrices, whaleOrders, heatmapData, spoofAlerts,
                  volumeHistoryRef, recentLiquidityRef, rollingAvgRef,
                  lastProcessedRef, flashTimers>>
ioVars == <<wsRef, sockets, fetches>>
ladderVars == <<tickSize, depthRangePercent, depth, imbalanceDepth>>
vars == <<symbol, isReplayMode, orderbook, prevOrderbook, connected, loading,
          error, isPlaying, currentTime, history, historyIndex,
          localPlaybackSpeed, lastUpdateTime, isStale, flashingPrices,
          whaleOrders, heatmapData, spoofAlerts, volumeHistoryRef,
          recentLiquidityRef, rollingAvgRef, currentSymbolRef,
          lastProcessedRef, wsRef, sockets, fetches, flashTimers, now,
          nextOid, tickSize, depthRangePercent, depth, imbalanceDepth,
          receiveTime, lastOp, steps>>

NoError == "null"

\* the event op is handled; a behaviour handles at most MaxSteps events.
\* receiveTime is written by the snapshot branch of ws.onmessage only.
Did(op) ==
  /\ steps < MaxSteps
  /\ steps' = steps + 1
  /\ lastOp' = op
  /\ receiveTime' = IF op = "SocketSnapshot" THEN now ELSE receiveTime
  /\ UNCHANGED ladderVars
EmptyMap == <<>>
EmptyWindows == [bids |-> <<>>, asks |-> <<>>]
ZeroAvg == [bid |-> [n |-> 0, d |-> 1], ask |-> [n |-> 0, d |-> 1]]

(***************************************************************************)
(* The detection effect (deps: orderbook, prevOrderbook, isReplayMode).    *)
(* It works on the detector state D, a record of the detector variables.   *)
(***************************************************************************)
Detector ==
  [flash |-> flashingPrices, whales |-> whaleOrders, heat |-> heatmapData,
   spoofs |-> spoofAlerts, vh |-> volumeHistoryRef,
   liq |-> recentLiquidityRef, avg |-> rollingAvgRef,
   lastp |-> lastProcessedRef, timers |-> flashTimers]

SetDetector(D) ==
  /\ flashingPrices' = D.flash
  /\ whaleOrders' = D.whales
  /\ heatmapData' = D.heat
  /\ spoofAlerts' = D.spoofs
  /\ volumeHistoryRef' = D.vh
  /\ recentLiquidityRef' = D.liq
  /\ rollingAvgRef' = D.avg
  /\ lastProcessedRef' = D.lastp
  /\ flashTimers' = D.timers

\* new Map(levels.map(l => [price, volume])): a later entry of a price wins
LevelMap(levels) ==
  [p \in Prices(levels) |->
     levels[CHOOSE i \in 1..Len(levels) :
              /\ levels[i].price = p
              /\ \A j \in (i + 1)..Len(levels) : levels[j].price # p].volume]

\* the sum of a Map's values
SumMap(m) ==
  SumSeq([k \in 1..Cardinality(DOMAIN m) |->
            m[CHOOSE p \in DOMAIN m :
                Cardinality({q \in DOMAIN m : q <= p}) = k]])

\* map.get(price) || 0
VolAt(m, p) == IF p \in DOMAIN m THEN m[p] ELSE 0

\* a later Map entry replaces an earlier one with the same key
MapMerge(a, b) ==
  [p \in DOMAIN a \cup DOMAIN b |-> IF p \in DOMAIN b THEN b[p] ELSE a[p]]

\* variant: avgSize is the mean of the previous map's values
detectChangesPreviousAvg(current, previous, side) ==
  LET currentMap == LevelMap(current)
      prevMap == LevelMap(previous)
      cnt == Cardinality(DOMAIN prevMap)
      total == SumMap(prevMap)
      Over(diff) == IF cnt > 0 THEN diff * cnt > total * LARGE_ORDER_THRESHOLD
                    ELSE diff > 0
      added == {p \in DOMAIN currentMap :
                  Over(currentMap[p] - VolAt(prevMap, p))}
      removed == {p \in DOMAIN prevMap :
                  Over(prevMap[p] - VolAt(currentMap, p))}
  IN  [p \in added \cup removed |->
         [type |-> IF p \in removed THEN "removed" ELSE "added",
          side |-> side]]

\* detectChanges: diff > avgSize * LARGE_ORDER_THRESHOLD, with avgSize the
\* mean of the current map's values
detectChanges(current, previous, side) ==
  LET currentMap == LevelMap(current)
      prevMap == LevelMap(previous)
      cnt == Cardinality(DOMAIN currentMap)
      total == SumMap(currentMap)
      \* diff > threshold, both sides multiplied by cnt
      Over(diff) == IF cnt > 0 THEN diff * cnt > total * LARGE_ORDER_THRESHOLD
                    ELSE diff > 0
      added == {p \in DOMAIN currentMap :
                  Over(currentMap[p] - VolAt(prevMap, p))}
      removed == {p \in DOMAIN prevMap :
                  Over(prevMap[p] - VolAt(currentMap, p))}
  IN  [p \in added \cup removed |->
         [type |-> IF p \in removed THEN "removed" ELSE "added",
          side |-> side]]

\* vol > rollingAvg * WHALE_THRESHOLD
IsWhale(vol, avg) == vol * avg.d > avg.n * WHALE_THRESHOLD

\* (bidRollingAvg + askRollingAvg) / 2 as a fraction
AvgVol(bidAvg, askAvg) ==
  [n |-> bidAvg.n * askAvg.d + askAvg.n * bidAvg.d,
   d |-> 2 * bidAvg.d * askAvg.d]

\* variant: the test without the maximum
IsSpoofMinOnly(maxVol, minVol, avgVol) == minVol * avgVol.d * 2 < avgVol.n

\* maxVol > avgVol * 3 && minVol < avgVol * 0.5
IsSpoof(maxVol, minVol, avgVol) ==
  /\ maxVol * avgVol.d > avgVol.n * 3
  /\ minVol * avgVol.d * 2 < avgVol.n

\* the forEach over [...bids, ...asks] of the spoof tracking: acc is
\* [liq, spoofs], t is Date.now() of the effect.  All samples of one run
\* carry the time t, so the list the loop leaves at a price after the i-th
\* level is the filtered list of the samples held before the run followed
\* by those of the levels up to i at that price.
TrackLiquidity(levels, acc, avgVol, t) ==
  LET n == Len(levels)
      held(p) == IF p \in DOMAIN acc.liq THEN acc.liq[p] ELSE <<>>
      sample(i) == [time |-> t, volume |-> levels[i].volume]
      same(i) == {j \in 1..i : levels[j].price = levels[i].price}
      \* history.push for the levels up to i at the price of level i
      pushed(i) ==
        held(levels[i].price) \o
        [k \in 1..Cardinality(same(i)) |->
           sample(CHOOSE j \in same(i) :
                    Cardinality({m \in same(i) : m <= j}) = k)]
      filtered(i) == SelectSeq(pushed(i),
                       LAMBDA h : t - h.time < SPOOF_DETECTION_WINDOW)
      vols(i) == [k \in 1..Len(filtered(i)) |-> filtered(i)[k].volume]
      spoof(i) == /\ Len(filtered(i)) >= 2
                  /\ IsSpoof(MaxSeq(vols(i)), MinSeq(vols(i)), avgVol)
                  /\ filtered(i)[Len(filtered(i))].time - filtered(i)[1].time
                       < SPOOF_DETECTION_WINDOW
      last(p) == CHOOSE i \in 1..n :
                   levels[i].price = p /\ \A j \in (i + 1)..n : levels[j].price # p
      seen == {levels[i].price : i \in 1..n}
      \* liquidityMap.delete(price) for a list filtered to nothing
      deleted == {p \in seen : filtered(last(p)) = <<>>}
      spoofing == {i \in 1..n : spoof(i)}
      found == [k \in 1..Cardinality(spoofing) |->
                  LET i == CHOOSE j \in spoofing :
                             Cardinality({m \in spoofing : m <= j}) = k
                  IN  [price |-> levels[i].price,
                       maxVol |-> MaxSeq(vols(i)), time |-> t]]
  IN  [liq |-> [p \in (DOMAIN acc.liq \cup seen) \ deleted |->
                  IF p \in seen THEN filtered(last(p)) ELSE acc.liq[p]],
       spoofs |-> acc.spoofs \o found]

\* variant: the capture keeps all levels
HeatCaptureAllLevels(ob, t) == [time |-> t, bids |-> ob.bids, asks |-> ob.asks]

\* the snapshot the heatmap keeps of ob
HeatCapture(ob, t) ==
  [time |-> t, bids |-> SliceFirst(ob.bids, HEATMAP_LEVELS),
   asks |-> SliceFirst(ob.asks, HEATMAP_LEVELS)]

\* the persistence score of the price of price hundredths, as the fraction
\* n / d: the captures holding a level whose price is closer to it than the
\* tick, the differences and the comparison being those of doubles
getHeatmapIntensity(price) ==
  IF Len(heatmapData) = 0 THEN [n |-> 0, d |-> 1]
  ELSE LET present(snapshot) ==
             \E i \in 1..Len(snapshot.bids \o snapshot.asks) :
               LET l == (snapshot.bids \o snapshot.asks)[i]
               IN  DLess(DAbsDiff(parseFloat(l.price), parseFloat(price)),
                         parseFloat(tickSize))
       IN  [n |-> Cardinality({k \in 1..Len(heatmapData) :
                                 present(heatmapData[k])}),
            d |-> Len(heatmapData)]

\* variant: the guards without the replay-mode test
DetectionRunsInReplay(ob, prev, replay, D) ==
  /\ ob # NullBook
  /\ prev # NullBook
  /\ D.lastp # ob

\* variant: the guards without the test of the snapshot handled last
DetectionRunsOnRepeat(ob, prev, replay, D) ==
  /\ ob # NullBook
  /\ prev # NullBook
  /\ ~replay

\* the guards of the effect: both snapshots exist, live mode, not the
\* snapshot handled last
DetectionRuns(ob, prev, replay, D) ==
  /\ ob # NullBook
  /\ prev # NullBook
  /\ ~replay
  /\ D.lastp # ob

\* variant: the new whale prices are added to the set held before
setWhaleOrdersAccumulating(held, newWhales) == held \cup newWhales

\* setWhaleOrders(newWhales): the state setter replaces the set held before
setWhaleOrders(held, newWhales) == newWhales

\* variant: the new alerts go to the end and the last ten are kept
setSpoofAlertsAtEnd(prevAlerts, detectedSpoofs) ==
  SliceLast(prevAlerts \o detectedSpoofs, SPOOF_ALERT_CAP)

\* setSpoofAlerts(prevAlerts => [...detectedSpoofs, ...prevAlerts].slice(0, 10))
setSpoofAlerts(prevAlerts, detectedSpoofs) ==
  SliceFirst(detectedSpoofs \o prevAlerts, SPOOF_ALERT_CAP)

\* the body of the effect after its guards
DetectionBody(ob, prev, D, t) ==
  LET allChanges == MapMerge(detectChanges(ob.bids, prev.bids, "bid"),
                             detectChanges(ob.asks, prev.asks, "ask"))
      vhBids == SliceLast(D.vh.bids \o Volumes(ob.bids), ROLLING_WINDOW_SIZE)
      vhAsks == SliceLast(D.vh.asks \o Volumes(ob.asks), ROLLING_WINDOW_SIZE)
      bidRollingAvg == Mean(vhBids)
      askRollingAvg == Mean(vhAsks)
      newWhales ==
        {ob.bids[i].price : i \in
           {j \in 1..Len(ob.bids) : IsWhale(ob.bids[j].volume, bidRollingAvg)}}
        \cup
        {ob.asks[i].price : i \in
           {j \in 1..Len(ob.asks) : IsWhale(ob.asks[j].volume, askRollingAvg)}}
      tracked == TrackLiquidity(ob.bids \o ob.asks,
                   [liq |-> D.liq, spoofs |-> <<>>],
                   AvgVol(bidRollingAvg, askRollingAvg), t)
  IN  [flash |-> IF DOMAIN allChanges # {} THEN allChanges ELSE D.flash,
       timers |-> IF DOMAIN allChanges # {}
                  THEN D.timers \cup {t + FLASH_CLEAR_MS} ELSE D.timers,
       vh |-> [bids |-> vhBids, asks |-> vhAsks],
       avg |-> [bid |-> bidRollingAvg, ask |-> askRollingAvg],
       whales |-> setWhaleOrders(D.whales, newWhales),
       liq |-> tracked.liq,
       spoofs |-> IF tracked.spoofs # <<>>
                  THEN setSpoofAlerts(D.spoofs, tracked.spoofs)
                  ELSE D.spoofs,
       heat |-> SliceLast(Append(D.heat, HeatCapture(ob, t)),
                          HEATMAP_HISTORY_SIZE),
       lastp |-> ob]

DetectionEffect(ob, prev, replay, D, t) ==
  IF DetectionRuns(ob, prev, replay, D) THEN DetectionBody(ob, prev, D, t)
  ELSE D

(***************************************************************************)
(* Effects run on a prop change                                            *)
(***************************************************************************)
\* "Clear state when symbol changes": the detector part
\* variant: the clear without setWhaleOrders(new Set())
SymbolClearKeepsWhales(D) ==
  [D EXCEPT !.heat = <<>>, !.spoofs = <<>>,
            !.flash = EmptyMap, !.vh = EmptyWindows, !.liq = EmptyMap,
            !.avg = ZeroAvg]

SymbolClear(D) ==
  [D EXCEPT !.whales = {}, !.heat = <<>>, !.spoofs = <<>>,
            !.flash = EmptyMap, !.vh = EmptyWindows, !.liq = EmptyMap,
            !.avg = ZeroAvg]

\* "Clear live-mode detection state when entering replay mode"
ReplayEntryClear(D) ==
  [D EXCEPT !.whales = {}, !.spoofs = <<>>, !.flash = EmptyMap,
            !.heat = <<>>]

\* cleanup of the WebSocket effect for its socket id: intentionalClose = true,
\* and close() only if the socket is OPEN
WsCleanup(S, id) ==
  {IF s.id = id THEN [s EXCEPT !.intentionalClose = TRUE] ELSE s :
     s \in {x \in S : ~(x.id = id /\ x.readyState = "OPEN")}}

\* "Close any existing connection first - only if OPEN"
CloseIfOpen(S, id) == {x \in S : ~(x.id = id /\ x.readyState = "OPEN")}

FreeId(S) ==
  CHOOSE i \in 1..(Cardinality(S) + 1) : \A s \in S : s.id # i

\* new WebSocket(wsUrl) for sym, handlers attached
NewSocket(S, sym) ==
  [id |-> FreeId(S), sym |-> sym, readyState |-> "CONNECTING",
   intentionalClose |-> FALSE]

\* cleanup of the history effect: controller.abort()
AbortFetches(F) == {[f EXCEPT !.aborted = TRUE] : f \in F}

\* variant: the reset without setOrderbook(null)
StartHistoryLoadKeepsView(F, sym) ==
  /\ loading' = TRUE
  /\ isPlaying' = FALSE
  /\ historyIndex' = 0
  /\ history' = <<>>
  /\ orderbook' = orderbook
  /\ error' = NoError
  /\ fetches' = F \cup {[sym |-> sym, aborted |-> FALSE]}

\* variant: the reset without setHistoryIndex(0)
StartHistoryLoadKeepsIndex(F, sym) ==
  /\ loading' = TRUE
  /\ isPlaying' = FALSE
  /\ historyIndex' = historyIndex
  /\ history' = <<>>
  /\ orderbook' = NullBook
  /\ error' = NoError
  /\ fetches' = F \cup {[sym |-> sym, aborted |-> FALSE]}

\* the history effect in replay mode: reset, then fetch
StartHistoryLoad(F, sym) ==
  /\ loading' = TRUE
  /\ isPlaying' = FALSE
  /\ historyIndex' = 0
  /\ history' = <<>>
  /\ orderbook' = NullBook
  /\ error' = NoError
  /\ fetches' = F \cup {[sym |-> sym, aborted |-> FALSE]}

InitRest ==
  /\ symbol = "XBT/USD"
  /\ isReplayMode \in BOOLEAN
  /\ prevOrderbook = NullBook
  /\ connected = FALSE
  /\ loading = TRUE
  /\ error = NoError
  /\ isPlaying = FALSE
  /\ currentTime = NullTime
  /\ history = <<>>
  /\ historyIndex = 0
  /\ localPlaybackSpeed = DEFAULT_SPEED
  /\ lastUpdateTime = 0
  /\ isStale = FALSE
  /\ flashingPrices = EmptyMap
  /\ whaleOrders = {}
  /\ heatmapData = <<>>
  /\ spoofAlerts = <<>>
  /\ volumeHistoryRef = EmptyWindows
  /\ recentLiquidityRef = EmptyMap
  /\ rollingAvgRef = ZeroAvg
  /\ currentSymbolRef = "XBT/USD"
  /\ lastProcessedRef = NullBook
  /\ wsRef = IF isReplayMode THEN 0 ELSE 1
  /\ sockets = IF isReplayMode THEN {} ELSE {NewSocket({}, "XBT/USD")}
  /\ flashTimers = {}
  /\ now = 0
  /\ nextOid = 1
  /\ receiveTime = NullTime
  /\ lastOp = "mount"
  /\ steps = 0

\* the state after mount: in replay mode the history request is in flight
InitComponent ==
  /\ InitRest
  /\ fetches = IF isReplayMode
               THEN {[sym |-> "XBT/USD", aborted |-> FALSE]} ELSE {}

Init ==
  /\ InitComponent
  /\ orderbook = NullBook
  /\ tickSize = 100
  /\ depthRangePercent = 5
  /\ depth = DEFAULT_DEPTH
  /\ imbalanceDepth = DEFAULT_IMBALANCE_DEPTH

(***************************************************************************)
(* Prop changes                                                            *)
(***************************************************************************)
\* the symbol prop changes to s
ChangeSymbol(s) ==
  /\ s # symbol
  /\ symbol' = s
  /\ currentSymbolRef' = s
  /\ prevOrderbook' = NullBook
  /\ connected' = FALSE
  /\ isStale' = FALSE
  /\ SetDetector(SymbolClear(Detector))
  /\ IF isReplayMode
     THEN /\ StartHistoryLoad(AbortFetches(fetches), s)
          /\ UNCHANGED <<wsRef, sockets>>
     ELSE LET S1 == WsCleanup(sockets, wsRef)
              ws == NewSocket(S1, s)
          IN  /\ Cardinality(S1) < MaxSockets
              /\ sockets' = S1 \cup {ws}
              /\ wsRef' = ws.id
              /\ orderbook' = NullBook
              /\ loading' = TRUE
              /\ error' = NoError
              /\ UNCHANGED <<isPlaying, historyIndex, history, fetches>>
  /\ Did("ChangeSymbol")
  /\ UNCHANGED <<isReplayMode, currentTime, localPlaybackSpeed,
                 lastUpdateTime, now, nextOid>>

\* the replay prop becomes true
EnterReplay ==
  /\ ~isReplayMode
  /\ isReplayMode' = TRUE
  /\ LET S1 == WsCleanup(sockets, wsRef)
     IN  /\ sockets' = S1
         /\ wsRef' = IF \E x \in S1 : x.id = wsRef THEN wsRef ELSE 0
  /\ SetDetector(ReplayEntryClear(Detector))
  /\ StartHistoryLoad(fetches, symbol)
  /\ Did("EnterReplay")
  /\ UNCHANGED <<symbol, prevOrderbook, connected, currentTime,
                 localPlaybackSpeed, lastUpdateTime, isStale,
                 currentSymbolRef, now, nextOid>>

\* the replay prop becomes false
ExitReplay ==
  /\ isReplayMode
  /\ isReplayMode' = FALSE
  /\ fetches' = AbortFetches(fetches)
  /\ LET S1 == CloseIfOpen(sockets, wsRef)
         ws == NewSocket(S1, symbol)
     IN  /\ Cardinality(S1) < MaxSockets
         /\ sockets' = S1 \cup {ws}
         /\ wsRef' = ws.id
  /\ SetDetector(DetectionEffect(orderbook, prevOrderbook, FALSE, Detector,
                                 now))
  /\ Did("ExitReplay")
  /\ UNCHANGED <<symbol, orderbook, prevOrderbook, connected, loading, error,
                 isPlaying, currentTime, history, historyIndex,
                 localPlaybackSpeed, lastUpdateTime, isStale,
                 currentSymbolRef, now, nextOid>>

\* startTime or endTime changes while in replay mode
ChangeTimeRange ==
  /\ isReplayMode
  /\ StartHistoryLoad(AbortFetches(fetches), symbol)
  /\ Did("ChangeTimeRange")
  /\ UNCHANGED <<symbol, isReplayMode, prevOrderbook, connected, currentTime,
                 localPlaybackSpeed, lastUpdateTime, isStale,
                 currentSymbolRef, wsRef, sockets, now, nextOid>>
  /\ UNCHANGED detectorVars

(***************************************************************************)
(* Live socket events                                                      *)
(***************************************************************************)
\* ws.onopen
SocketOpen(id) ==
  \E s \in sockets :
    /\ s.id = id
    /\ s.readyState = "CONNECTING"
    /\ sockets' = (sockets \ {s}) \cup {[s EXCEPT !.readyState = "OPEN"]}
    /\ connected' = TRUE
    /\ loading' = FALSE
    /\ error' = NoError
    /\ lastUpdateTime' = now
    /\ Did("SocketOpen")
    /\ UNCHANGED <<propVars, viewVars, replayVars, localPlaybackSpeed,
                   isStale, currentSymbolRef, wsRef, fetches, now, nextOid>>
    /\ UNCHANGED detectorVars

\* the guard of ws.onmessage: the message is handled
MessageAccepted(s) == currentSymbolRef = s.sym

\* ws.onmessage with a message of type 'snapshot' whose message.data holds
\* the levels of data; the parsed object is a new one
SnapshotMessage(id, data) ==
  \E s \in sockets :
    /\ s.id = id
    /\ s.readyState = "OPEN"
    /\ IF MessageAccepted(s)
       THEN /\ nextOid <= MaxOid
            /\ lastUpdateTime' = now
            /\ isStale' = FALSE
            /\ prevOrderbook' = orderbook
            /\ orderbook' = [data EXCEPT !.sym = s.sym, !.oid = nextOid]
            /\ nextOid' = nextOid + 1
            /\ SetDetector(DetectionEffect(orderbook', prevOrderbook',
                                           isReplayMode, Detector, now))
            /\ Did("SocketSnapshot")
       ELSE /\ Did("MessageDropped")
            /\ UNCHANGED <<viewVars, lastUpdateTime, isStale, nextOid>>
            /\ UNCHANGED detectorVars
    /\ UNCHANGED <<propVars, connected, loading, error, replayVars,
                   localPlaybackSpeed, currentSymbolRef, ioVars, now>>

SocketSnapshot(id, kind) ==
  SnapshotMessage(id, LiveBook("", kind, 0))

\* ws.onmessage with a message of type 'error', or one JSON.parse rejects
SocketOtherMessage(id, type) ==
  \E s \in sockets :
    /\ s.id = id
    /\ s.readyState = "OPEN"
    /\ error' = IF MessageAccepted(s) /\ type = "error" THEN "message"
                ELSE error
    /\ Did(IF MessageAccepted(s) THEN "SocketOtherMessage"
           ELSE "MessageDropped")
    /\ UNCHANGED <<propVars, viewVars, connected, loading, lastUpdateTime,
                   isStale, replayVars, localPlaybackSpeed, currentSymbolRef,
                   ioVars, now, nextOid>>
    /\ UNCHANGED detectorVars

\* the guard shared by ws.onerror and ws.onclose
CloseReported(s) == ~s.intentionalClose /\ currentSymbolRef = s.sym

\* the connection fails: ws.onerror, then ws.onclose
SocketError(id) ==
  \E s \in sockets :
    /\ s.id = id
    /\ sockets' = sockets \ {s}
    /\ wsRef' = IF wsRef = id THEN 0 ELSE wsRef
    /\ error' = IF CloseReported(s) THEN "websocket" ELSE error
    /\ connected' = IF CloseReported(s) THEN FALSE ELSE connected
    /\ Did("SocketError")
    /\ UNCHANGED <<propVars, viewVars, loading, lastUpdateTime, isStale,
                   replayVars, localPlaybackSpeed, currentSymbolRef, fetches,
                   now, nextOid>>
    /\ UNCHANGED detectorVars

\* the server closes the connection: ws.onclose
SocketClose(id) ==
  \E s \in sockets :
    /\ s.id = id
    /\ s.readyState = "OPEN"
    /\ sockets' = sockets \ {s}
    /\ wsRef' = IF wsRef = id THEN 0 ELSE wsRef
    /\ connected' = IF CloseReported(s) THEN FALSE ELSE connected
    /\ Did("SocketClose")
    /\ UNCHANGED <<propVars, viewVars, loading, error, lastUpdateTime,
                   isStale, replayVars, localPlaybackSpeed, currentSymbolRef,
                   fetches, now, nextOid>>
    /\ UNCHANGED detectorVars

(***************************************************************************)
(* Timers                                                                  *)
(***************************************************************************)
\* variant: the feed is stale from the threshold on
StaleCheckAtThreshold ==
  /\ ~isReplayMode
  /\ isStale' = (now - lastUpdateTime >= STALE_THRESHOLD_MS)
  /\ Did("StaleCheck")
  /\ UNCHANGED <<propVars, viewVars, connected, loading, error,
                 lastUpdateTime, replayVars, localPlaybackSpeed,
                 currentSymbolRef, ioVars, now, nextOid>>
  /\ UNCHANGED detectorVars

\* the 1 s interval of the stale check, set up in live mode only
StaleCheck ==
  /\ ~isReplayMode
  /\ isStale' = (now - lastUpdateTime > STALE_THRESHOLD_MS)
  /\ Did("StaleCheck")
  /\ UNCHANGED <<propVars, viewVars, connected, loading, error,
                 lastUpdateTime, replayVars, localPlaybackSpeed,
                 currentSymbolRef, ioVars, now, nextOid>>
  /\ UNCHANGED detectorVars

\* setTimeout(() => setFlashingPrices(new Map()), 600) comes due
FlashTimeout(t) ==
  /\ t \in flashTimers
  /\ now >= t
  /\ flashTimers' = flashTimers \ {t}
  /\ flashingPrices' = EmptyMap
  /\ Did("FlashTimeout")
  /\ UNCHANGED <<propVars, viewVars, statusVars, replayVars,
                 localPlaybackSpeed, currentSymbolRef, ioVars, now, nextOid,
                 whaleOrders, heatmapData, spoofAlerts, volumeHistoryRef,
                 recentLiquidityRef, rollingAvgRef, lastProcessedRef>>

\* time passes; a timeout that is due runs first
Tick ==
  /\ now < MaxNow * ClockStep
  /\ \A t \in flashTimers : t > now
  /\ now' = now + ClockStep
  /\ Did("Tick")
  /\ UNCHANGED <<propVars, viewVars, statusVars, replayVars,
                 localPlaybackSpeed, currentSymbolRef, ioVars, nextOid>>
  /\ UNCHANGED detectorVars

(***************************************************************************)
(* History fetch outcomes                                                  *)
(***************************************************************************)
\* variant: the step is the quotient rounded down
DownsampleFloorStep(data) ==
  IF Len(data) > MAX_SNAPSHOTS
  THEN LET step == Len(data) \div MAX_SNAPSHOTS
           keep == {i \in 1..Len(data) : (i - 1) % step = 0}
       IN  [k \in 1..Cardinality(keep) |-> data[(k - 1) * step + 1]]
  ELSE data

\* "Downsample if too many snapshots for smooth playback"
Downsample(data) ==
  IF Len(data) > MAX_SNAPSHOTS
  THEN LET step == (Len(data) + MAX_SNAPSHOTS - 1) \div MAX_SNAPSHOTS
           keep == {i \in 1..Len(data) : (i - 1) % step = 0}
       IN  [k \in 1..Cardinality(keep) |-> data[(k - 1) * step + 1]]
  ELSE data

\* a request the component has not aborted is answered with an array
FetchOk(f, data) ==
  /\ f \in fetches
  /\ ~f.aborted
  /\ data # <<>> => nextOid <= MaxOid
  /\ fetches' = fetches \ {f}
  /\ history' = Downsample(data)
  /\ orderbook' = IF history' # <<>> THEN history'[1] ELSE orderbook
  /\ currentTime' = IF history' # <<>> THEN history'[1].ts ELSE currentTime
  /\ loading' = FALSE
  /\ nextOid' = IF data # <<>> THEN nextOid + 1 ELSE nextOid
  /\ SetDetector(DetectionEffect(orderbook', prevOrderbook, isReplayMode,
                                 Detector, now))
  /\ Did("FetchOk")
  /\ UNCHANGED <<propVars, prevOrderbook, connected, error, lastUpdateTime,
                 isStale, isPlaying, historyIndex, localPlaybackSpeed,
                 currentSymbolRef, wsRef, sockets, now>>

\* variant: the .catch without the AbortError test
HistoryCatchAll(errName) == [error |-> "history", loading |-> FALSE]

\* the .catch of the history fetch, for a rejection named errName:
\* the new [error, loading]
HistoryCatch(errName) ==
  IF errName = "AbortError" THEN [error |-> error, loading |-> loading]
  ELSE [error |-> "history", loading |-> FALSE]

\* a request fails, or is answered with a status that is not ok; an aborted
\* request rejects with an AbortError
FetchRejected(f) ==
  /\ f \in fetches
  /\ fetches' = fetches \ {f}
  /\ LET r == HistoryCatch(IF f.aborted THEN "AbortError" ELSE "Error")
     IN  /\ error' = r.error
         /\ loading' = r.loading
  /\ Did(IF f.aborted THEN "FetchAborted" ELSE "FetchFailed")
  /\ UNCHANGED <<propVars, viewVars, connected, lastUpdateTime, isStale,
                 replayVars, localPlaybackSpeed, currentSymbolRef, wsRef,
                 sockets, now, nextOid>>
  /\ UNCHANGED detectorVars

\* a request the component has not aborted is answered with JSON that is
\* no array
FetchOkNoArray(f) ==
  /\ f \in fetches
  /\ ~f.aborted
  /\ fetches' = fetches \ {f}
  /\ loading' = FALSE
  /\ Did("FetchOkNoArray")
  /\ UNCHANGED <<propVars, viewVars, connected, error, lastUpdateTime,
                 isStale, replayVars, localPlaybackSpeed, currentSymbolRef,
                 wsRef, sockets, now, nextOid>>
  /\ UNCHANGED detectorVars

(***************************************************************************)
(* Replay controller.  historyIndex counts from 0 as in the code.          *)
(***************************************************************************)
HistAt(i) == history[i + 1]
HasHist(i) == i >= 0 /\ i < Len(history)

\* the view after setOrderbook / setCurrentTime of history[i]
ShowSnapshot(i) ==
  /\ orderbook' = HistAt(i)
  /\ currentTime' = HistAt(i).ts
  /\ SetDetector(DetectionEffect(orderbook', prevOrderbook, isReplayMode,
                                 Detector, now))

\* variant: at the end of the history the playback starts over
PlaybackTickLooping ==
  /\ isPlaying /\ isReplayMode /\ history # <<>>
  /\ LET next == (historyIndex + 1) % Len(history)
     IN  /\ historyIndex' = next
         /\ ShowSnapshot(next)
         /\ UNCHANGED isPlaying
  /\ Did("PlaybackTick")
  /\ UNCHANGED <<propVars, prevOrderbook, statusVars, history,
                 localPlaybackSpeed, currentSymbolRef, ioVars, now, nextOid>>

\* the interval callback of the playback effect
PlaybackTick ==
  /\ isPlaying /\ isReplayMode /\ history # <<>>
  /\ LET next == historyIndex + 1
     IN  IF next >= Len(history)
         THEN /\ isPlaying' = FALSE
              /\ UNCHANGED <<historyIndex, orderbook, currentTime>>
              /\ UNCHANGED detectorVars
         ELSE /\ historyIndex' = next
              /\ ShowSnapshot(next)
              /\ UNCHANGED isPlaying
  /\ Did("PlaybackTick")
  /\ UNCHANGED <<propVars, prevOrderbook, statusVars, history,
                 localPlaybackSpeed, currentSymbolRef, ioVars, now, nextOid>>

handlePlayPause ==
  /\ isReplayMode
  /\ isPlaying' = ~isPlaying
  /\ Did("handlePlayPause")
  /\ UNCHANGED <<propVars, viewVars, statusVars, currentTime, history,
                 historyIndex, localPlaybackSpeed, currentSymbolRef, ioVars,
                 now, nextOid>>
  /\ UNCHANGED detectorVars

handleSeek(index) ==
  /\ isReplayMode
  /\ historyIndex' = index
  /\ IF HasHist(index) THEN ShowSnapshot(index)
     ELSE UNCHANGED <<orderbook, currentTime>> /\ UNCHANGED detectorVars
  /\ Did("handleSeek")
  /\ UNCHANGED <<propVars, prevOrderbook, statusVars, isPlaying, history,
                 localPlaybackSpeed, currentSymbolRef, ioVars, now, nextOid>>

\* the for loop of handleJumpBack, entered at i with newIndex = acc
RECURSIVE JumpBackScan(_, _, _)
JumpBackScan(i, acc, targetTime) ==
  IF i < 0 THEN acc
  ELSE IF HistAt(i).ts <= targetTime THEN i
  ELSE JumpBackScan(i - 1, i, targetTime)

\* the for loop of handleJumpForward, entered at i with newIndex = acc
RECURSIVE JumpForwardScan(_, _, _)
JumpForwardScan(i, acc, targetTime) ==
  IF i >= Len(history) THEN acc
  ELSE IF HistAt(i).ts >= targetTime THEN i
  ELSE JumpForwardScan(i + 1, i, targetTime)

\* variant: newIndex is only assigned when a snapshot qualifies
JumpBackIndexQualifying ==
  IF history = <<>> \/ currentTime = NullTime THEN historyIndex
  ELSE IF historyIndex - 1 >= Len(history) THEN historyIndex
  ELSE LET q == {i \in 0..(historyIndex - 1) :
                   HistAt(i).ts <= currentTime - JUMP_MS}
       IN  IF q = {} THEN historyIndex
           ELSE CHOOSE i \in q : \A j \in q : j <= i

\* variant: the scan runs upward from the first snapshot
JumpBackIndexEarliest ==
  IF history = <<>> \/ currentTime = NullTime THEN historyIndex
  ELSE IF historyIndex - 1 >= Len(history) THEN historyIndex
  ELSE LET q == {i \in 0..(historyIndex - 1) :
                   HistAt(i).ts <= currentTime - JUMP_MS}
       IN  IF q = {} THEN Min2(historyIndex, 0)
           ELSE CHOOSE i \in q : \A j \in q : i <= j

\* newIndex of handleJumpBack; reading history[i].timestamp of an index past
\* the end throws, which ends the handler with nothing set
JumpBackIndex ==
  IF history = <<>> \/ currentTime = NullTime THEN historyIndex
  ELSE IF historyIndex - 1 >= Len(history) THEN historyIndex
  ELSE JumpBackScan(historyIndex - 1, historyIndex, currentTime - JUMP_MS)

\* variant: newIndex is the loop variable after the loop
JumpForwardIndexPastEnd ==
  IF history = <<>> \/ currentTime = NullTime THEN historyIndex
  ELSE IF historyIndex + 1 < 0 THEN historyIndex
  ELSE LET q == {i \in (historyIndex + 1)..(Len(history) - 1) :
                   HistAt(i).ts >= currentTime + JUMP_MS}
       IN  IF q = {} THEN Len(history)
           ELSE CHOOSE i \in q : \A j \in q : i <= j

JumpForwardIndex ==
  IF history = <<>> \/ currentTime = NullTime THEN historyIndex
  ELSE IF historyIndex + 1 < 0 THEN historyIndex
  ELSE JumpForwardScan(historyIndex + 1, historyIndex, currentTime + JUMP_MS)

JumpTo(newIndex) ==
  IF newIndex # historyIndex
  THEN /\ historyIndex' = newIndex
       /\ IF HasHist(newIndex) THEN ShowSnapshot(newIndex)
          ELSE \* history[newIndex] is undefined: the view is set to it, and
               \* reading its timestamp throws
               /\ orderbook' = NullBook
               /\ UNCHANGED currentTime
               /\ UNCHANGED detectorVars
  ELSE UNCHANGED <<historyIndex, orderbook, currentTime>>
       /\ UNCHANGED detectorVars

handleJumpBack ==
  /\ isReplayMode
  /\ JumpTo(JumpBackIndex)
  /\ Did("handleJumpBack")
  /\ UNCHANGED <<propVars, prevOrderbook, statusVars, isPlaying, history,
                 localPlaybackSpeed, currentSymbolRef, ioVars, now, nextOid>>

handleJumpForward ==
  /\ isReplayMode
  /\ JumpTo(JumpForwardIndex)
  /\ Did("handleJumpForward")
  /\ UNCHANGED <<propVars, prevOrderbook, statusVars, isPlaying, history,
                 localPlaybackSpeed, currentSymbolRef, ioVars, now, nextOid>>

handleSpeedChange(speed) ==
  /\ isReplayMode
  /\ speed # localPlaybackSpeed
  /\ localPlaybackSpeed' = speed
  /\ Did("handleSpeedChange")
  /\ UNCHANGED <<propVars, viewVars, statusVars, replayVars,
                 currentSymbolRef, ioVars, now, nextOid>>
  /\ UNCHANGED detectorVars

(***************************************************************************)
(* Tick aggregation and the ladders                                        *)
(***************************************************************************)
\* roundedPrice of aggregateByTickSize for the doubles price and tick
roundedPrice(price, tick, isBid) ==
  IF isBid THEN DMul(MathFloor(DDiv(price, tick)), tick)
  ELSE DMul(MathCeil(DDiv(price, tick)), tick)

\* .sort((a, b) => isBid ? b.price - a.price : a.price - b.price) of
\* entries with different prices
RECURSIVE SortByPrice(_, _)
SortByPrice(entries, isBid) ==
  IF entries = {} THEN <<>>
  ELSE LET first == CHOOSE x \in entries : \A y \in entries :
                      IF isBid THEN DLeq(y.price, x.price)
                      ELSE DLeq(x.price, y.price)
       IN  <<first>> \o SortByPrice(entries \ {first}, isBid)

\* aggregateByTickSize for levels whose price is a Number already
\* (parseFloat of a Number gives the Number back)
aggregateNumbers(levels, tick, isBid) ==
  LET rp == [i \in 1..Len(levels) |->
               roundedPrice(levels[i].price, parseFloat(tick), isBid)]
      aggregated == {rp[i] : i \in 1..Len(levels)}
      volumeOf(k) == SumSeq([i \in 1..Len(levels) |->
                               IF rp[i] = k THEN levels[i].volume ELSE 0])
  IN  SortByPrice({[price |-> k, volume |-> volumeOf(k), total |-> 0] :
                     k \in aggregated}, isBid)

aggregateByTickSize(orders, tick, isBid) ==
  aggregateNumbers([i \in 1..Len(orders) |->
                      [price |-> parseFloat(orders[i].price),
                       volume |-> orders[i].volume]], tick, isBid)

\* midPriceCalc of formatOrderbookData
midPriceCalc(ob) ==
  LET bestBidPrice == IF ob.bids # <<>> THEN parseFloat(ob.bids[1].price)
                      ELSE DZero
      bestAskPrice == IF ob.asks # <<>> THEN parseFloat(ob.asks[1].price)
                      ELSE DZero
  IN  DDiv(DAdd(bestBidPrice, bestAskPrice), NumberOf(2))

\* "Filter by depth range (percent from mid-price)"
RECURSIVE FilterLevels(_, _, _)
FilterLevels(orders, mid, rangeLimit) ==
  IF orders = <<>> THEN <<>>
  ELSE LET rest == FilterLevels(Tail(orders), mid, rangeLimit)
       IN  IF DLeq(DAbsDiff(parseFloat(Head(orders).price), mid), rangeLimit)
           THEN <<Head(orders)>> \o rest ELSE rest

filterByRange(orders, ob, pct) ==
  IF pct >= NO_FILTER_PERCENT THEN orders
  ELSE LET mid == midPriceCalc(ob)
       IN  FilterLevels(orders, mid,
                        DMul(mid, DDiv(NumberOf(pct), NumberOf(100))))

Reverse(s) == [i \in 1..Len(s) |-> s[Len(s) + 1 - i]]

\* "Calculate cumulative volumes": total of entry i is the sum of the
\* volumes of entries 1..i
Cumulate(s) ==
  [i \in 1..Len(s) |->
     [s[i] EXCEPT !.total = SumSeq([j \in 1..i |-> s[j].volume])]]

\* the ladders the component renders in the current state
formatOrderbookData ==
  IF orderbook = NullBook THEN [bids |-> <<>>, asks |-> <<>>, maxTotal |-> 0]
  ELSE LET filteredBids == filterByRange(orderbook.bids, orderbook,
                                         depthRangePercent)
           filteredAsks == filterByRange(orderbook.asks, orderbook,
                                         depthRangePercent)
           bids == Cumulate(Reverse(SliceFirst(
                     aggregateByTickSize(filteredBids, tickSize, TRUE),
                     depth)))
           asks == Cumulate(SliceFirst(
                     aggregateByTickSize(filteredAsks, tickSize, FALSE),
                     depth))
       IN  [bids |-> bids, asks |-> asks,
            maxTotal |-> Max2(IF bids # <<>> THEN bids[Len(bids)].total
                              ELSE 0,
                              IF asks # <<>> THEN asks[Len(asks)].total
                              ELSE 0)]

\* entry of the bid ladder bestBid reads its price from, 0 for none
bestBid == Len(formatOrderbookData.bids)

\* entry of the ask ladder bestAsk reads its price from, 0 for none
bestAsk == IF formatOrderbookData.asks # <<>> THEN 1 ELSE 0

\* the integer a bignum stands for
BigToInt(a) == SumSeq([i \in 1..Len(a) |-> a[i] * LimbBase^(i - 1)])

\* x - y of two doubles that are not negative: the sign and the magnitude
DSub(x, y) == [neg |-> DLess(x, y), abs |-> DAbsDiff(x, y)]

\* Number.prototype.toFixed(f): the sign and the count of units of 10^-f
\* nearest to the magnitude, the larger one of two equally near
toFixed(x, f) ==
  [neg |-> x.neg,
   units |->
     IF x.abs = DZero THEN 0
     ELSE LET scaled == BigMul(x.abs.m, Big(10^f))
          IN  IF x.abs.e >= 0 THEN BigToInt(BigShl(scaled, x.abs.e))
              ELSE BigToInt(BigShr(BigAdd(scaled,
                                          BigShl(<<1>>, -x.abs.e - 1)),
                                   -x.abs.e))]

\* PAIR_DECIMALS[symbol] || PAIR_DECIMALS['default']
getPriceDecimals(sym) == IF sym = "SOL/USD" THEN 3 ELSE 2

formatPrice(x) == toFixed(x, getPriceDecimals(symbol))

\* the text shown instead of a number
NotAvailable == [text |-> "N/A"]

\* bestAsk && bestBid: null and the number 0 are falsy
BestAskAndBestBid ==
  LET L == formatOrderbookData
  IN  /\ L.asks # <<>> /\ L.asks[1].price # DZero
      /\ L.bids # <<>> /\ L.bids[Len(L.bids)].price # DZero

spread ==
  LET L == formatOrderbookData
  IN  IF BestAskAndBestBid
      THEN formatPrice(DSub(L.asks[1].price, L.bids[Len(L.bids)].price))
      ELSE NotAvailable

midPrice ==
  LET L == formatOrderbookData
  IN  IF BestAskAndBestBid
      THEN formatPrice([neg |-> FALSE,
                        abs |-> DDiv(DAdd(L.asks[1].price,
                                          L.bids[Len(L.bids)].price),
                                     NumberOf(2))])
      ELSE NotAvailable

\* a tick button is clicked
setTickSize(size) ==
  /\ size # tickSize
  /\ tickSize' = size
  /\ UNCHANGED <<depthRangePercent, depth, imbalanceDepth, receiveTime,
                 lastOp, steps>>
  /\ UNCHANGED <<propVars, viewVars, statusVars, replayVars,
                 localPlaybackSpeed, currentSymbolRef, ioVars, now, nextOid>>
  /\ UNCHANGED detectorVars

\* a range button is clicked
setDepthRangePercent(pct) ==
  /\ pct # depthRangePercent
  /\ depthRangePercent' = pct
  /\ UNCHANGED <<tickSize, depth, imbalanceDepth, receiveTime, lastOp, steps>>
  /\ UNCHANGED <<propVars, viewVars, statusVars, replayVars,
                 localPlaybackSpeed, currentSymbolRef, ioVars, now, nextOid>>
  /\ UNCHANGED detectorVars

\* the depth prop changes to d
ChangeDepth(d) ==
  /\ d # depth
  /\ depth' = d
  /\ UNCHANGED <<tickSize, depthRangePercent, imbalanceDepth, receiveTime,
                 lastOp, steps>>
  /\ UNCHANGED <<propVars, viewVars, statusVars, replayVars,
                 localPlaybackSpeed, currentSymbolRef, ioVars, now, nextOid>>
  /\ UNCHANGED detectorVars

\* variant: the totals run over all levels of each side
calculateImbalanceAllLevels ==
  IF orderbook = NullBook
  THEN [ratio |-> [n |-> 1, d |-> 2], bidTotal |-> 0, askTotal |-> 0]
  ELSE LET bidTotal == SumSeq(Volumes(orderbook.bids))
           askTotal == SumSeq(Volumes(orderbook.asks))
           total == bidTotal + askTotal
           g == Gcd(bidTotal, total)
       IN  [ratio |-> IF total > 0
                      THEN [n |-> bidTotal \div g, d |-> total \div g]
                      ELSE [n |-> 1, d |-> 2],
            bidTotal |-> bidTotal, askTotal |-> askTotal]

\* the imbalance the component renders in the current state; ratio is an
\* exact fraction in lowest terms
calculateImbalance ==
  IF orderbook = NullBook
  THEN [ratio |-> [n |-> 1, d |-> 2], bidTotal |-> 0, askTotal |-> 0]
  ELSE LET bidLevels == SliceFirst(orderbook.bids, imbalanceDepth)
           askLevels == SliceFirst(orderbook.asks, imbalanceDepth)
           bidTotal == SumSeq(Volumes(bidLevels))
           askTotal == SumSeq(Volumes(askLevels))
           total == bidTotal + askTotal
           g == Gcd(bidTotal, total)
       IN  [ratio |-> IF total > 0
                      THEN [n |-> bidTotal \div g, d |-> total \div g]
                      ELSE [n |-> 1, d |-> 2],
            bidTotal |-> bidTotal, askTotal |-> askTotal]

\* an imbalance depth button is clicked
setImbalanceDepth(d) ==
  /\ d # imbalanceDepth
  /\ imbalanceDepth' = d
  /\ UNCHANGED <<tickSize, depthRangePercent, depth, receiveTime,
                 lastOp, steps>>
  /\ UNCHANGED <<propVars, viewVars, statusVars, replayVars,
                 localPlaybackSpeed, currentSymbolRef, ioVars, now, nextOid>>
  /\ UNCHANGED detectorVars

SocketIds == 1..(MaxSockets + 1)
Depths == {1, 2, DEFAULT_DEPTH}
SeekValues == 0..MaxHist
Speeds == {2, 4}                     \* the 1x and 2x buttons

Next ==
  \/ \E s \in Symbols : ChangeSymbol(s)
  \/ EnterReplay
  \/ ExitReplay
  \/ ChangeTimeRange
  \/ \E id \in SocketIds : SocketOpen(id)
  \/ \E id \in SocketIds, kind \in LiveKinds : SocketSnapshot(id, kind)
  \/ \E id \in SocketIds, type \in {"error", "malformed"} :
       SocketOtherMessage(id, type)
  \/ \E id \in SocketIds : SocketError(id)
  \/ \E id \in SocketIds : SocketClose(id)
  \/ StaleCheck
  \/ \E t \in flashTimers : FlashTimeout(t)
  \/ Tick
  \/ \E f \in fetches : \E data \in HistoryAnswers(f.sym, nextOid) :
       FetchOk(f, data)
  \/ \E f \in fetches : FetchOkNoArray(f)
  \/ \E f \in fetches : FetchRejected(f)
  \/ PlaybackTick
  \/ handlePlayPause
  \/ \E index \in SeekValues : handleSeek(index)
  \/ handleJumpBack
  \/ handleJumpForward
  \/ \E speed \in Speeds : handleSpeedChange(speed)
  \/ \E size \in TICK_SIZES : setTickSize(size)
  \/ \E pct \in DEPTH_RANGES : setDepthRangePercent(pct)
  \/ \E d \in Depths : ChangeDepth(d)
  \/ \E d \in IMBALANCE_DEPTHS : setImbalanceDepth(d)

Spec == Init /\ [][Next]_vars

(***************************************************************************)
(* The component under instrument and mode switches, live sockets and      *)
(* history answers: every event but the replay controls and the timers.    *)
(***************************************************************************)
NextSwitch ==
  \/ \E s \in Symbols : ChangeSymbol(s)
  \/ EnterReplay
  \/ ExitReplay
  \/ \E id \in SocketIds : SocketOpen(id)
  \/ \E id \in SocketIds, kind \in LiveKinds : SocketSnapshot(id, kind)
  \/ \E id \in SocketIds : SocketError(id)
  \/ \E f \in fetches : \E data \in HistoryAnswers(f.sym, nextOid) :
       FetchOk(f, data)
  \/ \E index \in SeekValues : handleSeek(index)

SpecSwitch == Init /\ [][NextSwitch]_vars

(***************************************************************************)
(* The replay controller: history loads and their outcomes, the replay     *)
(* controls, and the live feed that fills the detector before replay is    *)
(* entered.                                                                *)
(***************************************************************************)
NextReplay ==
  \/ \E s \in Symbols : ChangeSymbol(s)
  \/ EnterReplay
  \/ ExitReplay
  \/ ChangeTimeRange
  \/ \E id \in SocketIds : SocketOpen(id)
  \/ \E id \in SocketIds, kind \in LiveKinds : SocketSnapshot(id, kind)
  \/ \E f \in fetches : \E data \in HistoryAnswers(f.sym, nextOid) :
       FetchOk(f, data)
  \/ \E f \in fetches : FetchOkNoArray(f)
  \/ \E f \in fetches : FetchRejected(f)
  \/ PlaybackTick
  \/ handlePlayPause
  \/ \E index \in SeekValues : handleSeek(index)
  \/ handleJumpBack
  \/ handleJumpForward
  \/ \E speed \in Speeds : handleSpeedChange(speed)

SpecReplay == Init /\ [][NextReplay]_vars

(***************************************************************************)
(* The ladders as a function of snapshot, tick size, range and depth: the  *)
(* snapshot is any of AggBooks, and the controls move through all their    *)
(* values.                                                                 *)
(***************************************************************************)
AggBids ==
  {<<>>,
   <<Level(35, 1)>>,
   <<Level(35, 2), Level(34, 1)>>,
   <<Level(35, 1), Level(34, 0), Level(29, 2)>>,
   <<Level(170, 1), Level(35, 3)>>,
   <<Level(59, 1), Level(58, 2)>>}

AggAsks ==
  {<<>>,
   <<Level(36, 1), Level(41, 2)>>,
   <<Level(171, 2), Level(180, 1), Level(183, 1)>>}

AggBooks ==
  {[oid |-> 1, sym |-> "XBT/USD", src |-> "live", ts |-> 0,
    bids |-> b, asks |-> a] : b \in AggBids, a \in AggAsks}

InitAgg ==
  /\ InitComponent
  /\ ~isReplayMode
  /\ orderbook \in AggBooks
  /\ tickSize \in TICK_SIZES
  /\ depthRangePercent \in DEPTH_RANGES
  /\ depth \in Depths
  /\ imbalanceDepth = DEFAULT_IMBALANCE_DEPTH

NextAgg ==
  \/ \E size \in TICK_SIZES : setTickSize(size)
  \/ \E pct \in DEPTH_RANGES : setDepthRangePercent(pct)
  \/ \E d \in Depths : ChangeDepth(d)

SpecAgg == InitAgg /\ [][NextAgg]_vars

(***************************************************************************)
(* The imbalance as a function of snapshot and imbalance depth.            *)
(***************************************************************************)
SixAsks == <<Level(101, 1), Level(102, 1), Level(103, 2), Level(104, 1),
             Level(105, 1), Level(106, 7)>>

ImbBids ==
  {<<>>, <<Level(35, 0)>>, <<Level(35, 2), Level(34, 1)>>, CalmBids,
   WhaleBids, <<Level(100, 0), Level(99, 0), Level(98, 0), Level(97, 0),
                Level(96, 0), Level(95, 3)>>}

ImbAsks ==
  {<<>>, <<Level(36, 0), Level(37, 0)>>, <<Level(36, 1), Level(41, 2)>>,
   CalmAsks, SixAsks}

ImbBooks ==
  {NullBook} \cup
  {[oid |-> 1, sym |-> "XBT/USD", src |-> "live", ts |-> 0,
    bids |-> b, asks |-> a] : b \in ImbBids, a \in ImbAsks}

InitImb ==
  /\ InitComponent
  /\ ~isReplayMode
  /\ orderbook \in ImbBooks
  /\ tickSize = 100
  /\ depthRangePercent = 5
  /\ depth = DEFAULT_DEPTH
  /\ imbalanceDepth \in IMBALANCE_DEPTHS

NextImb == \E d \in IMBALANCE_DEPTHS : setImbalanceDepth(d)

SpecImb == InitImb /\ [][NextImb]_vars

(***************************************************************************)
(* The history load for answers of up to MaxStride * MAX_SNAPSHOTS (and a  *)
(* few more) snapshots: the component is mounted in replay mode, and the   *)
(* request in flight carries the body it will be answered with.            *)
(***************************************************************************)
MaxStride == 3
DownSpread == 12

DownLengths ==
  {0, 1, 2} \cup
  {k * MAX_SNAPSHOTS + d - DownSpread :
     k \in 1..MaxStride, d \in 0..(2 * DownSpread)}

\* an answer of n snapshots taken one second apart
LongAnswer(n) ==
  [i \in 1..n |-> HistBook("XBT/USD", HistStart + (i - 1) * 1000, 1)]

InitDown ==
  /\ InitRest
  /\ isReplayMode
  /\ \E n \in DownLengths :
       fetches = {[sym |-> "XBT/USD", aborted |-> FALSE,
                   body |-> LongAnswer(n)]}
  /\ orderbook = NullBook
  /\ tickSize = 100
  /\ depthRangePercent = 5
  /\ depth = DEFAULT_DEPTH
  /\ imbalanceDepth = DEFAULT_IMBALANCE_DEPTH

NextDown == \E f \in fetches : FetchOk(f, f.body)

SpecDown == InitDown /\ [][NextDown]_vars

(***************************************************************************)
(* The live feed of a book whose levels all have volume 1.0, but for one   *)
(* ask level that may grow to 3.5.  Volumes are in units of 0.5 here: the  *)
(* comparisons of the detector are homogeneous in the volume, and halves   *)
(* and their sums are exact binary fractions.                              *)
(***************************************************************************)
MaxAskLevels == 12

FlatBids == [i \in 1..6 |-> Level(101 - i, 2)]

\* k ask levels of volume 1.0; with j > 0 the j-th has volume 3.5
GrowAsks(k, j) == [i \in 1..k |-> Level(100 + i, IF i = j THEN 7 ELSE 2)]

GrowBook(sym, k, j, oid) ==
  [oid |-> oid, sym |-> sym, src |-> "live", ts |-> 0,
   bids |-> FlatBids, asks |-> GrowAsks(k, j)]

IsFlat(ob) == ob # NullBook /\ ob.asks = GrowAsks(Len(ob.asks), 0)

\* the feed sends the book with k ask levels; the first snapshot fixes the
\* number of levels, and a level grows only after a snapshot without growth
GrowSnapshot(id, k, j) ==
  /\ orderbook # NullBook => k = Len(orderbook.asks)
  /\ j > 0 => IsFlat(orderbook)
  /\ SnapshotMessage(id, GrowBook("", k, j, 0))

NextGrow ==
  \/ \E id \in SocketIds : SocketOpen(id)
  \/ \E id \in SocketIds, k \in 1..MaxAskLevels :
       \E j \in 0..k : GrowSnapshot(id, k, j)

\* the component is mounted in live mode
InitLive == Init /\ ~isReplayMode

SpecGrow == InitLive /\ [][NextGrow]_vars

(***************************************************************************)
(* The history load with the replay controls as the rendered page offers   *)
(* them: the play button and the seek slider are disabled while loading    *)
(* and while the history is empty, and the slider ranges over the indices  *)
(* of the history.                                                         *)
(***************************************************************************)
ControlsEnabled == ~loading /\ history # <<>>

NextLoad ==
  \/ \E s \in Symbols : ChangeSymbol(s)
  \/ EnterReplay
  \/ ExitReplay
  \/ ChangeTimeRange
  \/ \E id \in SocketIds : SocketOpen(id)
  \/ \E id \in SocketIds, kind \in LiveKinds : SocketSnapshot(id, kind)
  \/ \E id \in SocketIds : SocketError(id)
  \/ \E f \in fetches : \E data \in HistoryAnswers(f.sym, nextOid) :
       FetchOk(f, data)
  \/ \E f \in fetches : FetchOkNoArray(f)
  \/ \E f \in fetches : FetchRejected(f)
  \/ PlaybackTick
  \/ ControlsEnabled /\ handlePlayPause
  \/ ControlsEnabled /\ \E index \in 0..(Len(history) - 1) : handleSeek(index)

SpecLoad == Init /\ [][NextLoad]_vars

(***************************************************************************)
(* Playback of a loaded history of up to MaxPlay snapshots.  While the     *)
(* playback effect is active its interval keeps firing, hence the weak     *)
(* fairness of PlaybackTick.  The user acts only while the step bound      *)
(* leaves room for the ticks that reach the end of the history.            *)
(***************************************************************************)
MaxPlay == 4

InitPlay ==
  /\ InitRest
  /\ isReplayMode
  /\ \E n \in 1..MaxPlay :
       fetches = {[sym |-> "XBT/USD", aborted |-> FALSE,
                   body |-> LongAnswer(n)]}
  /\ orderbook = NullBook
  /\ tickSize = 100
  /\ depthRangePercent = 5
  /\ depth = DEFAULT_DEPTH
  /\ imbalanceDepth = DEFAULT_IMBALANCE_DEPTH

\* after a user action now, the ticks from index i to the pause at the end
\* fit below the step bound
Budget(i) == steps + 1 + (Len(history) - i) <= MaxSteps

NextPlay ==
  \/ \E f \in fetches : FetchOk(f, f.body)
  \/ PlaybackTick
  \/ ControlsEnabled /\ Budget(historyIndex) /\ handlePlayPause
  \/ ControlsEnabled /\ \E index \in 0..(Len(history) - 1) :
       Budget(index) /\ handleSeek(index)
  \/ \E speed \in Speeds : Budget(historyIndex) /\ handleSpeedChange(speed)

SpecPlay == InitPlay /\ [][NextPlay]_vars /\ WF_vars(PlaybackTick)

(***************************************************************************)
(* The live feed of books whose ask side has one level or two, with the    *)
(* clock: a price of one snapshot may be absent from the next.             *)
(***************************************************************************)
ThinSnapshot(id, k) ==
  SnapshotMessage(id, GrowBook("", k, 0, 0))

NextThin ==
  \/ \E id \in SocketIds : SocketOpen(id)
  \/ \E id \in SocketIds, k \in {1, 2} : ThinSnapshot(id, k)
  \/ Tick

SpecThin == InitLive /\ [][NextThin]_vars

(***************************************************************************)
(* The live feed once the heatmap window is full or nearly so: the state   *)
(* is the one after n processed updates at mount time, the i-th of them a  *)
(* book of 16 ask levels whose bid volume depends on i.                     *)
(***************************************************************************)
HeatGap == 2
DeepLevels == HEATMAP_LEVELS + 1

\* a book with k ask levels of volume 1.0 and one bid level of volume v / 2
HeatBook(sym, k, v, oid) ==
  [oid |-> oid, sym |-> sym, src |-> "live", ts |-> 0,
   bids |-> <<Level(100, v)>>, asks |-> GrowAsks(k, 0)]

\* the i-th snapshot the feed has sent
PastBook(i) == HeatBook("XBT/USD", DeepLevels, 2 + (i % 3), 1 + (i % 2))

\* the detector after the first n updates were processed, all at time 0: no
\* change between two of these books exceeds the large-order threshold, no
\* volume exceeds 5 times a rolling average, and no price has the volume
\* swing of a spoof
PastDetector(n) ==
  LET bidWindow == SliceLast([i \in 1..n |-> PastBook(i).bids[1].volume],
                             ROLLING_WINDOW_SIZE)
      askWindow == SliceLast([j \in 1..(n * DeepLevels) |-> 2],
                             ROLLING_WINDOW_SIZE)
      prices == IF n = 0 THEN {}
                ELSE Prices(PastBook(n).bids) \cup Prices(PastBook(n).asks)
  IN  [flash |-> EmptyMap, whales |-> {}, spoofs |-> <<>>, timers |-> {},
       heat |-> [i \in 1..n |-> HeatCapture(PastBook(i), 0)],
       vh |-> [bids |-> bidWindow, asks |-> askWindow],
       avg |-> IF n = 0 THEN ZeroAvg
               ELSE [bid |-> Mean(bidWindow), ask |-> Mean(askWindow)],
       liq |-> [p \in prices |->
                  [i \in 1..n |->
                     [time |-> 0,
                      volume |-> IF p \in Prices(PastBook(i).bids)
                                 THEN PastBook(i).bids[1].volume ELSE 2]]],
       lastp |-> IF n = 0 THEN NullBook ELSE PastBook(n)]

InitHeat ==
  \E n \in (HEATMAP_HISTORY_SIZE - HeatGap)..HEATMAP_HISTORY_SIZE :
    LET D == PastDetector(n)
    IN  /\ symbol = "XBT/USD"
        /\ isReplayMode = FALSE
        /\ orderbook = PastBook(n)
        /\ prevOrderbook = PastBook(n - 1)
        /\ connected = TRUE
        /\ loading = FALSE
        /\ error = NoError
        /\ isPlaying = FALSE
        /\ currentTime = NullTime
        /\ history = <<>>
        /\ historyIndex = 0
        /\ localPlaybackSpeed = DEFAULT_SPEED
        /\ lastUpdateTime = 0
        /\ isStale = FALSE
        /\ flashingPrices = D.flash
        /\ whaleOrders = D.whales
        /\ heatmapData = D.heat
        /\ spoofAlerts = D.spoofs
        /\ volumeHistoryRef = D.vh
        /\ recentLiquidityRef = D.liq
        /\ rollingAvgRef = D.avg
        /\ lastProcessedRef = D.lastp
        /\ flashTimers = D.timers
        /\ currentSymbolRef = "XBT/USD"
        /\ wsRef = 1
        /\ sockets = {[NewSocket({}, "XBT/USD") EXCEPT !.readyState = "OPEN"]}
        /\ fetches = {}
        /\ now = 0
        /\ nextOid = 3
        /\ receiveTime = 0
        /\ lastOp = "SocketSnapshot"
        /\ steps = 0
        /\ tickSize = 100
        /\ depthRangePercent = 5
        /\ depth = DEFAULT_DEPTH
        /\ imbalanceDepth = DEFAULT_IMBALANCE_DEPTH

HeatSnapshot(id, k, v) ==
  SnapshotMessage(id, HeatBook("", k, v, 0))

NextHeat ==
  \/ \E id \in SocketIds, k \in {2, DeepLevels}, v \in 2..3 :
       HeatSnapshot(id, k, v)
  \/ Tick

SpecHeat == InitHeat /\ [][NextHeat]_vars

(***************************************************************************)
(* The live feed of a book whose first SpoofLevels ask levels all carry    *)
(* the volume 0 or 4.0 (in units of 0.5: 0 or 8) while the ten ask levels  *)
(* behind them and the bid levels carry 1.0, with the clock.               *)
(***************************************************************************)
SpoofLevels == 6

SpoofBook(sym, h, oid) ==
  [oid |-> oid, sym |-> sym, src |-> "live", ts |-> 0,
   bids |-> FlatBids,
   asks |-> [i \in 1..(SpoofLevels + 10) |->
               Level(100 + i, IF i <= SpoofLevels THEN h ELSE 2)]]

NextSpoof ==
  \/ \E id \in SocketIds : SocketOpen(id)
  \/ \E id \in SocketIds, h \in {0, 8} :
       SnapshotMessage(id, SpoofBook("", h, 0))
  \/ \E t \in flashTimers : FlashTimeout(t)
  \/ Tick

SpecSpoof == InitLive /\ [][NextSpoof]_vars

(***************************************************************************)
(* The rolling windows: the feed goes on from the state after many         *)
(* updates, where the ask window is full, and an instrument change starts  *)
(* the windows anew.  A book has an empty ask side or DeepLevels ask        *)
(* levels, the first of which may be larger than the others.               *)
(***************************************************************************)
NextRoll ==
  \/ \E s \in Symbols : ChangeSymbol(s)
  \/ \E id \in SocketIds : SocketOpen(id)
  \/ \E id \in SocketIds, k \in {0, DeepLevels} :
       \E j \in 0..Min2(k, 1) : SnapshotMessage(id, GrowBook("", k, j, 0))

SpecRoll == InitHeat /\ [][NextRoll]_vars

(***************************************************************************)
(* The live feed with its failures, the stale check and a clock that       *)
(* advances by the stale threshold or by one second more; an instrument    *)
(* change brings a second connection.                                      *)
(***************************************************************************)
MaxWait == 12000
Waits == {STALE_THRESHOLD_MS, STALE_THRESHOLD_MS + 1000}

\* d ms pass; a timeout that is due runs first
Wait(d) ==
  /\ now + d <= MaxWait
  /\ \A t \in flashTimers : t > now
  /\ now' = now + d
  /\ Did("Tick")
  /\ UNCHANGED <<propVars, viewVars, statusVars, replayVars,
                 localPlaybackSpeed, currentSymbolRef, ioVars, nextOid>>
  /\ UNCHANGED detectorVars

NextFeed ==
  \/ \E s \in Symbols : ChangeSymbol(s)
  \/ \E id \in SocketIds : SocketOpen(id)
  \/ \E id \in SocketIds : SocketSnapshot(id, "calm")
  \/ \E id \in SocketIds, type \in {"error", "malformed"} :
       SocketOtherMessage(id, type)
  \/ \E id \in SocketIds : SocketError(id)
  \/ \E id \in SocketIds : SocketClose(id)
  \/ StaleCheck
  \/ \E d \in Waits : Wait(d)

SpecFeed == InitLive /\ [][NextFeed]_vars

\* the heat of a price: a connection delivers books whose bids lie one
\* hundredth apart while the tick buttons are clicked
NextScore ==
  \/ \E id \in SocketIds : SocketOpen(id)
  \/ \E id \in SocketIds :
       \E b \in {a \in AggBooks : Len(a.bids) \in 1..2 /\ Len(a.asks) = 2} :
         SnapshotMessage(id, b)
  \/ \E size \in TICK_SIZES : setTickSize(size)

SpecScore == InitLive /\ [][NextScore]_vars

(***************************************************************************)
(* Large changes on a moving market: the price 101 is the best ask of the  *)
(* "low" book and the best bid of the "high" book.                         *)
(***************************************************************************)
FlipKinds == {"calm", "low", "high", "bare"}

\* message.data of a snapshot message of the feed
FlipBook(sym, kind, oid) ==
  [oid |-> oid, sym |-> sym, src |-> "live", ts |-> 0,
   bids |-> IF kind = "high"
            THEN <<Level(101, 9), Level(100, 1), Level(99, 1)>>
            ELSE IF kind = "bare" THEN <<Level(100, 2)>>
            ELSE <<Level(100, 2), Level(99, 2), Level(98, 2)>>,
   asks |-> IF kind = "high"
            THEN <<Level(102, 1), Level(103, 1), Level(104, 1)>>
            ELSE IF kind = "low"
            THEN <<Level(101, 9), Level(102, 1), Level(103, 1)>>
            ELSE IF kind = "bare" THEN <<>>
            ELSE <<Level(101, 2), Level(102, 2), Level(103, 2)>>]

NextFlip ==
  \/ \E id \in SocketIds : SocketOpen(id)
  \/ \E id \in SocketIds, kind \in FlipKinds :
       SnapshotMessage(id, FlipBook("", kind, 0))
  \/ \E t \in flashTimers : FlashTimeout(t)
  \/ Tick

SpecFlip == InitLive /\ [][NextFlip]_vars

(***************************************************************************)
(* The flash timers: snapshots that arrive less than FLASH_CLEAR_MS apart  *)
(* on an open connection.                                                  *)
(***************************************************************************)
FlashGap == 300      \* milliseconds between two events

\* the component is mounted in live mode and its socket has opened
InitOpened ==
  /\ symbol = "XBT/USD"
  /\ isReplayMode = FALSE
  /\ orderbook = NullBook
  /\ prevOrderbook = NullBook
  /\ connected = TRUE
  /\ loading = FALSE
  /\ error = NoError
  /\ isPlaying = FALSE
  /\ currentTime = NullTime
  /\ history = <<>>
  /\ historyIndex = 0
  /\ localPlaybackSpeed = DEFAULT_SPEED
  /\ lastUpdateTime = 0
  /\ isStale = FALSE
  /\ flashingPrices = EmptyMap
  /\ whaleOrders = {}
  /\ heatmapData = <<>>
  /\ spoofAlerts = <<>>
  /\ volumeHistoryRef = EmptyWindows
  /\ recentLiquidityRef = EmptyMap
  /\ rollingAvgRef = ZeroAvg
  /\ currentSymbolRef = "XBT/USD"
  /\ lastProcessedRef = NullBook
  /\ wsRef = 1
  /\ sockets = {[NewSocket({}, "XBT/USD") EXCEPT !.readyState = "OPEN"]}
  /\ fetches = {}
  /\ flashTimers = {}
  /\ now = 0
  /\ nextOid = 1
  /\ receiveTime = NullTime
  /\ lastOp = "SocketOpen"
  /\ steps = 0
  /\ tickSize = 100
  /\ depthRangePercent = 5
  /\ depth = DEFAULT_DEPTH
  /\ imbalanceDepth = DEFAULT_IMBALANCE_DEPTH

NextFlash ==
  \/ \E id \in SocketIds, kind \in FlipKinds :
       SnapshotMessage(id, FlipBook("", kind, 0))
  \/ \E t \in flashTimers : FlashTimeout(t)
  \/ Wait(FlashGap)

SpecFlash == InitOpened /\ [][NextFlash]_vars

(***************************************************************************)
(* The depth range filter: books with levels at 1, 2, 5, 10 and 20 percent *)
(* from the mid price 1.00, with levels off these marks, and with a side   *)
(* missing.                                                                *)
(***************************************************************************)
RangeBooks ==
  LET book(b, a) == [oid |-> 1, sym |-> "XBT/USD", src |-> "live", ts |-> 0,
                     bids |-> b, asks |-> a]
      marksBids == <<Level(99, 1), Level(98, 2), Level(95, 1), Level(90, 3),
                     Level(80, 1)>>
      marksAsks == <<Level(101, 2), Level(102, 1), Level(105, 1),
                     Level(110, 2), Level(120, 1)>>
  IN  {book(marksBids, marksAsks),
       book(<<Level(200, 1), Level(197, 2), Level(150, 1)>>,
            <<Level(203, 1), Level(207, 1), Level(260, 2)>>),
       book(marksBids, <<>>),
       book(<<>>, marksAsks)}

InitRange ==
  /\ InitComponent
  /\ ~isReplayMode
  /\ orderbook \in RangeBooks
  /\ tickSize = 1
  /\ depthRangePercent = 5
  /\ depth = DEFAULT_DEPTH
  /\ imbalanceDepth = DEFAULT_IMBALANCE_DEPTH

NextRange ==
  \/ \E size \in {1, 10, 100} : setTickSize(size)
  \/ \E pct \in DEPTH_RANGES : setDepthRangePercent(pct)
  \/ \E d \in Depths : ChangeDepth(d)

SpecRange == InitRange /\ [][NextRange]_vars

(***************************************************************************)
(* The detection effect run again: a live feed and the replay prop going   *)
(* on and off, which re-runs the effect with the view unchanged.           *)
(***************************************************************************)
NextRepeat ==
  \/ EnterReplay
  \/ ExitReplay
  \/ \E id \in SocketIds : SocketOpen(id)
  \/ \E id \in SocketIds, kind \in LiveKinds : SocketSnapshot(id, kind)
  \/ \E f \in fetches : FetchRejected(f)

SpecRepeat == InitLive /\ [][NextRepeat]_vars

(***************************************************************************)
(* The jumps over a loaded history of up to MaxJump snapshots that are 4 s *)
(* or 10 s apart; the seek handler takes any value up to the length.       *)
(***************************************************************************)
MaxJump == 4

JumpAnswers ==
  {[i \in 1..Len(t) |-> HistBook("XBT/USD", t[i], 1)] :
     t \in UNION {TimeLists(n) : n \in 1..MaxJump}}

InitJump ==
  /\ InitRest
  /\ isReplayMode
  /\ \E body \in JumpAnswers :
       fetches = {[sym |-> "XBT/USD", aborted |-> FALSE, body |-> body]}
  /\ orderbook = NullBook
  /\ tickSize = 100
  /\ depthRangePercent = 5
  /\ depth = DEFAULT_DEPTH
  /\ imbalanceDepth = DEFAULT_IMBALANCE_DEPTH

NextJump ==
  \/ \E f \in fetches : FetchOk(f, f.body)
  \/ \E index \in 0..Len(history) : handleSeek(index)
  \/ handleJumpBack
  \/ handleJumpForward

SpecJump == InitJump /\ [][NextJump]_vars

(***************************************************************************)
(* Claims                                                                  *)
(***************************************************************************)
\* a socket created by an effect run that is no longer the current one: in
\* replay mode every socket, in live mode every socket but wsRef.current
StaleSocket(s) == isReplayMode \/ s.id # wsRef

\* C1: a snapshot message delivered by a socket that was created for an
\* instrument or mode that is no longer the current one changes neither the
\* current snapshot, the previous snapshot nor any detector state.
C1_StaleMessageDropped ==
  [][\A s \in sockets : \A kind \in LiveKinds :
       (StaleSocket(s) /\ SocketSnapshot(s.id, kind))
         => (UNCHANGED viewVars /\ UNCHANGED detectorVars)]_vars

\* C2: a new history load aborts the request in flight (at most one request
\* is not aborted, and it is the one of the current instrument in replay
\* mode), and the settling of an aborted request changes neither history,
\* index, current view, loading nor error.
C2_AbortedFetchIgnored ==
  [][/\ \A f \in fetches' :
          ~f.aborted => /\ isReplayMode' /\ f.sym = symbol'
                        /\ \A g \in fetches' : ~g.aborted => g = f
     /\ lastOp' = "FetchAborted" =>
          UNCHANGED <<history, historyIndex, orderbook, currentTime, loading,
                      error, isPlaying>>]_vars

\* C2 witness: the request of an earlier load, aborted, has just settled
\* while the load that replaced it is still in flight.
C2_Witness ==
  /\ lastOp = "FetchAborted"
  /\ isReplayMode /\ loading /\ error = NoError
  /\ \E f \in fetches : ~f.aborted

\* C3: whenever replay mode is entered or exited, the rolling volume
\* windows, the rolling averages and the liquidity history are empty after
\* the switch.
C3_ModeSwitchResetsRolling ==
  [][isReplayMode' # isReplayMode =>
       /\ volumeHistoryRef' = EmptyWindows
       /\ rollingAvgRef' = ZeroAvg
       /\ recentLiquidityRef' = EmptyMap]_vars

\* the prices of ob's levels that exceed 5 times the rolling average avg of
\* their side
FlaggedBy(ob, avg) ==
  {ob.bids[i].price : i \in
     {j \in 1..Len(ob.bids) : ob.bids[j].volume * avg.bid.d
                               > avg.bid.n * WHALE_THRESHOLD}}
  \cup
  {ob.asks[i].price : i \in
     {j \in 1..Len(ob.asks) : ob.asks[j].volume * avg.ask.d
                               > avg.ask.n * WHALE_THRESHOLD}}

\* C4: an instrument change empties the whale set, the spoof alerts, the
\* heatmap window, the flash set, the rolling windows and the liquidity
\* history; and every price in the whale set is a level of a snapshot of
\* the current instrument that exceeds 5 times the rolling average.
C4_SymbolChangeClears ==
  [][/\ symbol' # symbol =>
          /\ whaleOrders' = {} /\ spoofAlerts' = <<>> /\ heatmapData' = <<>>
          /\ flashingPrices' = EmptyMap
          /\ volumeHistoryRef' = EmptyWindows
          /\ rollingAvgRef' = ZeroAvg
          /\ recentLiquidityRef' = EmptyMap
     /\ whaleOrders' # {} =>
          /\ lastProcessedRef'.sym = symbol'
          /\ whaleOrders' = FlaggedBy(lastProcessedRef', rollingAvgRef')]_vars

\* C4 witness: the instrument has just changed, the snapshot processed last
\* under the old instrument held a whale level, and the whale set is empty.
C4_Witness ==
  /\ lastOp = "ChangeSymbol"
  /\ lastProcessedRef # NullBook
  /\ lastProcessedRef.sym # symbol
  /\ lastProcessedRef.bids = WhaleBids
  /\ whaleOrders = {}

ReplayOps ==
  {"FetchOk", "FetchOkNoArray", "FetchFailed", "FetchAborted",
   "ChangeTimeRange", "PlaybackTick", "handlePlayPause", "handleSeek",
   "handleJumpBack", "handleJumpForward", "handleSpeedChange"}

\* C5: in replay mode no replay operation (history load and its outcome,
\* playback tick, seek, jump, play/pause, speed change) changes the rolling
\* windows, the rolling averages, the liquidity history, the whale set, the
\* spoof alerts or the heatmap window.
C5_ReplayLeavesDetector ==
  [][(isReplayMode /\ isReplayMode' /\ lastOp' \in ReplayOps) =>
       UNCHANGED <<volumeHistoryRef, rollingAvgRef, recentLiquidityRef,
                   whaleOrders, spoofAlerts, heatmapData>>]_vars

\* C5 witness: a jump has moved the replay view while the rolling windows
\* hold samples of the live feed and a previous live snapshot exists.
C5_Witness ==
  /\ isReplayMode
  /\ lastOp = "handleJumpForward"
  /\ historyIndex > 0
  /\ orderbook.src = "replay"
  /\ prevOrderbook # NullBook
  /\ volumeHistoryRef # EmptyWindows

\* C6: a snapshot taken from the replay history is never processed by the
\* detectors: neither the snapshot processed last nor a heatmap capture
\* comes from one.
C6_ReplayNeverDetected ==
  /\ lastProcessedRef.src # "replay"
  /\ \A i \in 1..Len(heatmapData) :
       heatmapData[i].bids # HistBook(symbol, 0, 0).bids

\* no snapshot before the index is at least 10 s earlier than currentTime
NoneEarlier ==
  \A j \in 0..(historyIndex - 1) : HistAt(j).ts > currentTime - JUMP_MS

\* no snapshot after the index is at least 10 s later than currentTime
NoneLater ==
  \A j \in (historyIndex + 1)..(Len(history) - 1) :
     HistAt(j).ts < currentTime + JUMP_MS

JumpReady == history # <<>> /\ currentTime # NullTime /\ HasHist(historyIndex)

\* C7 as claimed: with no qualifying snapshot a jump leaves index and view
\* unchanged.
C7_JumpNoOp ==
  [][/\ (lastOp' = "handleJumpBack" /\ JumpReady /\ NoneEarlier)
          => UNCHANGED <<historyIndex, orderbook, currentTime>>
     /\ (lastOp' = "handleJumpForward" /\ JumpReady /\ NoneLater)
          => UNCHANGED <<historyIndex, orderbook, currentTime>>]_vars

\* C7 amended: with no qualifying snapshot, jump back moves to the first
\* snapshot and jump forward to the last one; index and view are unchanged
\* only when the index is already there.
C7_JumpClamps ==
  [][/\ (lastOp' = "handleJumpBack" /\ JumpReady /\ NoneEarlier) =>
          /\ historyIndex' = 0
          /\ IF historyIndex = 0
             THEN UNCHANGED <<orderbook, currentTime>>
             ELSE orderbook' = HistAt(0) /\ currentTime' = HistAt(0).ts
     /\ (lastOp' = "handleJumpForward" /\ JumpReady /\ NoneLater) =>
          /\ historyIndex' = Len(history) - 1
          /\ IF historyIndex = Len(history) - 1
             THEN UNCHANGED <<orderbook, currentTime>>
             ELSE /\ orderbook' = HistAt(Len(history) - 1)
                  /\ currentTime' = HistAt(Len(history) - 1).ts]_vars

\* C7 witness: a jump back has ended on the first of two snapshots that are
\* less than 10 s apart, and shows it.
C7_Witness ==
  /\ lastOp = "handleJumpBack"
  /\ Len(history) = 2
  /\ history[2].ts - history[1].ts < JUMP_MS
  /\ historyIndex = 0
  /\ orderbook = HistAt(0)
  /\ currentTime = HistAt(0).ts

\* C8: a jump from an index within [0, len-1] of a non-empty history leaves
\* the index within [0, len-1]; on an empty history a jump changes nothing.
C8_JumpKeepsRange ==
  [][lastOp' \in {"handleJumpBack", "handleJumpForward"} =>
       /\ (history # <<>> /\ HasHist(historyIndex)) => HasHist(historyIndex')
       /\ history = <<>> =>
            UNCHANGED <<historyIndex, orderbook, currentTime, history,
                        isPlaying>>]_vars

\* C8 witness: a jump forward has ended on the last snapshot of a history
\* of at least two.
C8_Witness ==
  /\ lastOp = "handleJumpForward"
  /\ Len(history) >= 2
  /\ historyIndex = Len(history) - 1
  /\ orderbook = HistAt(historyIndex)

\* the ladders of the current state
Ladders == formatOrderbookData

\* C9: in the ladders the cumulative total of each side is non-decreasing
\* when walking from that side's best price outward: a bid entry with a
\* lower price and an ask entry with a higher price carry a total that is
\* at least that of the entries nearer the best price.
C9_CumulativeOutward ==
  LET L == Ladders
  IN  /\ \A i, j \in 1..Len(L.bids) :
           DLess(L.bids[j].price, L.bids[i].price)
             => L.bids[i].total <= L.bids[j].total
      /\ \A i, j \in 1..Len(L.asks) :
           DLess(L.asks[i].price, L.asks[j].price)
             => L.asks[i].total <= L.asks[j].total

\* C10: for every level of the snapshot and the tick size in force, the
\* bid bucket price is at most the level's price and the ask bucket price
\* is at least the level's price.
C10_BucketBrackets ==
  /\ \A i \in 1..Len(orderbook.bids) :
       DLeq(roundedPrice(parseFloat(orderbook.bids[i].price),
                         parseFloat(tickSize), TRUE),
            parseFloat(orderbook.bids[i].price))
  /\ \A i \in 1..Len(orderbook.asks) :
       DLeq(parseFloat(orderbook.asks[i].price),
            roundedPrice(parseFloat(orderbook.asks[i].price),
                         parseFloat(tickSize), FALSE))

\* the buckets of a side, and the buckets of those buckets, at the tick size
\* in force, with their cumulative totals
Once(levels, isBid) == Cumulate(aggregateByTickSize(levels, tickSize, isBid))
Twice(levels, isBid) ==
  Cumulate(aggregateNumbers(Once(levels, isBid), tickSize, isBid))

\* C11: aggregating a side at the tick size and aggregating the resulting
\* buckets again at the same tick size yields the same buckets (prices and
\* volumes in the same order) and the same cumulative totals.
C11_AggregateIdempotent ==
  /\ Twice(orderbook.bids, TRUE) = Once(orderbook.bids, TRUE)
  /\ Twice(orderbook.asks, FALSE) = Once(orderbook.asks, FALSE)

\* the volume of the first n levels, added level by level from the n-th back
RECURSIVE FirstVolume(_, _)
FirstVolume(levels, n) ==
  IF n = 0 \/ levels = <<>> THEN 0
  ELSE IF n > Len(levels) THEN FirstVolume(levels, Len(levels))
  ELSE levels[n].volume + FirstVolume(levels, n - 1)

\* C12: the imbalance ratio is bidTotal / (bidTotal + askTotal) over the
\* first imbalanceDepth raw levels of each side and lies in [0, 1]; it is
\* 1/2 when there is no snapshot, when both sides are empty and when the
\* total volume is zero.
C12_ImbalanceRatio ==
  LET r == calculateImbalance.ratio
      b == FirstVolume(orderbook.bids, imbalanceDepth)
      a == FirstVolume(orderbook.asks, imbalanceDepth)
  IN  /\ r.d > 0 /\ 0 <= r.n /\ r.n <= r.d
      /\ b + a > 0 => r.n * (b + a) = b * r.d
      /\ b + a = 0 => r.n * 2 = r.d
      /\ orderbook = NullBook => r.n * 2 = r.d
      /\ (orderbook.bids = <<>> /\ orderbook.asks = <<>>) => r.n * 2 = r.d

\* C12 witness: a side has more levels than the imbalance depth, the levels
\* beyond it carry volume, and the ratio is none of 0, 1/2, 1.
C12_Witness ==
  /\ Len(orderbook.asks) > imbalanceDepth
  /\ orderbook.asks[Len(orderbook.asks)].volume > 0
  /\ calculateImbalance.ratio \notin
       {[n |-> 0, d |-> 1], [n |-> 1, d |-> 2], [n |-> 1, d |-> 1]}

\* the prices of the levels whose volume exceeds WHALE_THRESHOLD times the
\* mean of window
OverWindow(levels, window) ==
  {levels[i].price : i \in
     {j \in 1..Len(levels) :
        levels[j].volume * Len(window) > WHALE_THRESHOLD * SumSeq(window)}}

\* window ends with the volumes of levels, as far as the window size allows
EndsWith(window, levels) ==
  LET k == Min2(Len(levels), ROLLING_WINDOW_SIZE)
  IN  /\ Len(window) >= k
      /\ \A i \in 1..k :
            window[Len(window) - k + i] = levels[Len(levels) - k + i].volume

\* C13: after every processed live update the whale set is exactly the set
\* of prices of levels of the current snapshot whose volume is strictly
\* greater than 5 times the mean of their side's rolling window, the window
\* being the one that already holds this snapshot's volumes; the set is
\* replaced, so a price flagged earlier and not now is absent.
C13_WhaleSetRecomputed ==
  [][(lastProcessedRef' # lastProcessedRef /\ lastProcessedRef' # NullBook) =>
       /\ lastProcessedRef' = orderbook'
       /\ ~isReplayMode'
       /\ EndsWith(volumeHistoryRef'.bids, orderbook'.bids)
       /\ EndsWith(volumeHistoryRef'.asks, orderbook'.asks)
       /\ whaleOrders' =
            OverWindow(orderbook'.bids, volumeHistoryRef'.bids)
            \cup OverWindow(orderbook'.asks, volumeHistoryRef'.asks)]_vars

\* C13 witness: the snapshot before the one processed last held a whale
\* level whose volume is still in the rolling window, the snapshot processed
\* last holds none, and the whale set is empty.
C13_Witness ==
  /\ lastOp = "SocketSnapshot"
  /\ orderbook # NullBook
  /\ lastProcessedRef = orderbook
  /\ orderbook.bids = CalmBids
  /\ prevOrderbook.bids = WhaleBids
  /\ \E i \in 1..Len(volumeHistoryRef.bids) :
        volumeHistoryRef.bids[i] = WhaleBids[1].volume
  /\ Len(volumeHistoryRef.bids) >= 2 * Len(CalmBids)
  /\ whaleOrders = {}

\* ceil(n / MAX_SNAPSHOTS) for n > 0
Stride(n) ==
  CHOOSE s \in 1..n : s * MAX_SNAPSHOTS >= n /\ (s - 1) * MAX_SNAPSHOTS < n

\* C14: for an answer of n snapshots, the replay history equals the answer
\* if n <= 300; if n > 300 it holds the entries at indices 0, s, 2s, ... with
\* s = ceil(n / 300), so at most 300 entries, the first one included, in
\* chronological order. The history never holds more than 300 entries.
C14_Downsampling ==
  [][/\ Len(history') <= MAX_SNAPSHOTS
     /\ lastOp' = "FetchOk" =>
          \A f \in fetches \ fetches' :
            LET data == f.body
                n == Len(data)
                kept == {i \in 0..(n - 1) : i % Stride(n) = 0}
            IN  /\ n <= MAX_SNAPSHOTS => history' = data
                /\ n > MAX_SNAPSHOTS =>
                     /\ Len(history') = Cardinality(kept)
                     /\ \A k \in 1..Len(history') :
                          history'[k] = data[(k - 1) * Stride(n) + 1]
                     /\ history'[1] = data[1]
                     /\ \A k \in 1..(Len(history') - 1) :
                          history'[k].ts < history'[k + 1].ts]_vars

\* C14 witness: an answer of more than 300 snapshots was sampled with a
\* stride of 3 and fills the history to the cap.
C14_Witness ==
  /\ lastOp = "FetchOk"
  /\ Len(history) = MAX_SNAPSHOTS
  /\ history[2].ts - history[1].ts = 3000
  /\ orderbook = history[1]

\* the index of the ask level of ob that has grown, 0 if there is none
GrownLevel(ob) ==
  IF \E j \in 1..Len(ob.asks) : ob.asks = GrowAsks(Len(ob.asks), j)
  THEN CHOOSE j \in 1..Len(ob.asks) : ob.asks = GrowAsks(Len(ob.asks), j)
  ELSE 0

\* the update just made carried the growth of one ask level from 1.0 to 3.5,
\* all else being equal
GrowthStep ==
  /\ lastOp' = "SocketSnapshot"
  /\ IsFlat(prevOrderbook')
  /\ GrownLevel(orderbook') > 0
  /\ Len(orderbook'.asks) = Len(prevOrderbook'.asks)
  /\ orderbook'.bids = prevOrderbook'.bids

\* exactly the grown price is flagged, as added on the ask side
FlagOnGrown ==
  LET p == orderbook'.asks[GrownLevel(orderbook')].price
  IN  /\ DOMAIN flashingPrices' = {p}
      /\ flashingPrices'[p] = [type |-> "added", side |-> "ask"]

\* C15 as stated: when consecutive live snapshots are identical except for
\* one ask level that grows from 1.0 to 3.5 (the other levels of the side
\* have volume 1.0), the update raises an 'added' flag on exactly that price
\* and no flag on any other price.
C15_GrowthFlagged == [][GrowthStep => FlagOnGrown]_vars

\* C15: the same, for an ask side of at least 11 levels; with 10 levels or
\* fewer the growth of 2.5 does not exceed twice the mean of the current
\* volumes, and the update raises no flag at all.
C15_GrowthFlaggedOnDeepSide ==
  [][GrowthStep =>
       /\ Len(orderbook'.asks) > 10 => FlagOnGrown
       /\ Len(orderbook'.asks) <= 10 => flashingPrices' = flashingPrices]_vars

\* C15 witness: the growth on a side of 11 levels has raised the flag.
C15_Witness ==
  /\ lastOp = "SocketSnapshot"
  /\ IsFlat(prevOrderbook)
  /\ Len(orderbook.asks) = 11
  /\ GrownLevel(orderbook) = 3
  /\ DOMAIN flashingPrices = {orderbook.asks[3].price}

\* the replay states as the component tells them apart
Loading == isReplayMode /\ loading
ErrorShown == isReplayMode /\ error # NoError
Empty == isReplayMode /\ ~loading /\ error = NoError /\ history = <<>>
Ready == isReplayMode /\ ~loading /\ history # <<>>

ExactlyOne(S) == Cardinality({i \in DOMAIN S : S[i]}) = 1

C17_PlaybackRunsToEnd ==
  /\ [][(lastOp' = "PlaybackTick" /\ steps' # steps) =>
          IF historyIndex < Len(history) - 1
          THEN /\ historyIndex' = historyIndex + 1
               /\ orderbook' = history[historyIndex' + 1]
               /\ isPlaying'
          ELSE /\ historyIndex' = historyIndex
               /\ historyIndex' = Len(history) - 1
               /\ ~isPlaying']_vars
  /\ (isPlaying /\ history # <<>>) ~>
       /\ ~isPlaying
       /\ \/ lastOp = "handlePlayPause"
          \/ lastOp = "PlaybackTick" /\ historyIndex = Len(history) - 1

\* C17 witness: the playback has run through a history of several snapshots
\* and a tick at the last index has paused it there.
C17_Witness ==
  /\ lastOp = "PlaybackTick"
  /\ ~isPlaying
  /\ Len(history) >= 3
  /\ historyIndex = Len(history) - 1
  /\ orderbook = history[Len(history)]

\* C18: seek sets the index to a bound-checked value: after any seek
\* request on a loaded history, whatever value is requested and whether or
\* not playback is running, the index is within [0, len-1] and the view is
\* history[index].
C18_SeekBoundChecked ==
  [][(lastOp' = "handleSeek" /\ steps' # steps /\ history # <<>>) =>
       /\ historyIndex' \in 0..(Len(history') - 1)
       /\ orderbook' = history'[historyIndex' + 1]]_vars

\* C19: after every processed live update the liquidity history holds no
\* sample older than the spoof window of 3 s for any price, and no price is
\* mapped to an empty sample list, prices of earlier snapshots that are
\* absent from the current one included.
C19_LiquidityPurged ==
  [][(lastProcessedRef' # lastProcessedRef /\ lastProcessedRef' # NullBook) =>
       \A p \in DOMAIN recentLiquidityRef' :
         /\ recentLiquidityRef'[p] # <<>>
         /\ \A i \in 1..Len(recentLiquidityRef'[p]) :
              now' - recentLiquidityRef'[p][i].time
                <= SPOOF_DETECTION_WINDOW]_vars

\* the first n elements of s, one by one
FirstOf(s, n) == [i \in 1..(IF Len(s) < n THEN Len(s) ELSE n) |-> s[i]]

\* C20: the heatmap window never holds more than 30 captures, and each
\* capture holds at most the first 15 levels of each side; a capture
\* appended to a full window evicts the oldest one and keeps the order of
\* the others.
C20_HeatmapWindow ==
  [][/\ Len(heatmapData') <= 30
     /\ \A i \in 1..Len(heatmapData') :
          Len(heatmapData'[i].bids) <= 15 /\ Len(heatmapData'[i].asks) <= 15
     /\ (lastProcessedRef' # lastProcessedRef /\ lastProcessedRef' # NullBook)
          =>
          LET n == Len(heatmapData')
              kept == IF Len(heatmapData) = 30 THEN Tail(heatmapData)
                      ELSE heatmapData
          IN  /\ n = Len(kept) + 1
              /\ \A i \in 1..(n - 1) : heatmapData'[i] = kept[i]
              /\ heatmapData'[n].bids = FirstOf(orderbook'.bids, 15)
              /\ heatmapData'[n].asks = FirstOf(orderbook'.asks, 15)]_vars

\* C20 witness: a book of 16 ask levels was captured into a full window; the
\* oldest capture is gone and the window holds 30 captures.
C20_Witness ==
  /\ lastOp = "SocketSnapshot"
  /\ nextOid > 3
  /\ Len(heatmapData) = 30
  /\ Len(orderbook.asks) = 16
  /\ Len(heatmapData[30].asks) = 15
  /\ heatmapData[1].bids[1].volume = 4

\* the stale check and the snapshot branch, apart from the moment the clock
\* of the stale check starts at: the check writes isStale only; an accepted
\* snapshot clears the mark and is processed whether the feed is stale or
\* not; a message is dropped only for the instrument guard
StaleForDisplayOnly ==
  [][/\ lastOp' = "StaleCheck" =>
          UNCHANGED <<propVars, viewVars, connected, loading, error,
                      lastUpdateTime, replayVars, localPlaybackSpeed,
                      detectorVars, currentSymbolRef, ioVars, now, nextOid>>
     /\ lastOp' = "SocketSnapshot" =>
          /\ ~isStale'
          /\ orderbook'.oid = nextOid /\ prevOrderbook' = orderbook
          /\ SetDetector(DetectionEffect(orderbook', prevOrderbook',
                                         isReplayMode, Detector, now))
     /\ lastOp' = "MessageDropped" =>
          \E s \in sockets : s.readyState = "OPEN" /\ ~MessageAccepted(s)]_vars

\* C21 as claimed: in live mode the periodic check marks the feed stale
\* exactly when more than 5 s have passed since the last accepted snapshot;
\* accepting a snapshot clears the mark; the check changes no other state
\* and a stale feed still has its snapshots accepted and processed.
C21_StaleSinceSnapshot ==
  /\ [][(lastOp' = "StaleCheck" /\ receiveTime # NullTime) =>
         isStale' = (now - receiveTime > STALE_THRESHOLD_MS)]_vars
  /\ StaleForDisplayOnly

\* C21 amended: the clock of the stale check is restarted by an accepted
\* snapshot and by every connection open: the check marks the feed stale
\* exactly when more than 5 s have passed since the later of the two.
C21_StaleSinceUpdate ==
  /\ [][/\ lastOp' = "StaleCheck" =>
            isStale' = (now - lastUpdateTime > STALE_THRESHOLD_MS)
        /\ lastOp' \in {"SocketSnapshot", "SocketOpen"} =>
            lastUpdateTime' = now
        /\ lastOp' \notin {"SocketSnapshot", "SocketOpen"} =>
            UNCHANGED lastUpdateTime]_vars
  /\ StaleForDisplayOnly

\* C21 witness: the check has marked the feed stale, a snapshot was accepted
\* more than 5 s ago and no connection has opened since.
C21_Witness ==
  /\ lastOp = "StaleCheck"
  /\ isStale
  /\ receiveTime # NullTime
  /\ lastUpdateTime = receiveTime
  /\ now - receiveTime > STALE_THRESHOLD_MS

\* the socket of the current live feed
CurrentFeed(s) ==
  ~isReplayMode /\ s.id = wsRef /\ ~s.intentionalClose
  /\ currentSymbolRef = s.sym

\* C22: a transport failure of the current live feed (a socket error, a
\* socket close, a message that fails to parse) sets connected to false and
\* keeps the view and the detector state; a later connection open sets
\* connected to true and clears the error.
C22_TransportFailureSurfaced ==
  [][/\ \A s \in sockets :
          (/\ CurrentFeed(s)
           /\ \/ SocketError(s.id)
              \/ SocketClose(s.id)
              \/ SocketOtherMessage(s.id, "malformed"))
            => (~connected' /\ UNCHANGED viewVars /\ UNCHANGED detectorVars)
     /\ lastOp' = "SocketOpen" => (connected' /\ error' = NoError)]_vars

\* the indices before the current one whose snapshot is at least 10 s
\* earlier than the current time
EarlierBy10s ==
  {j \in 0..(Min2(historyIndex, Len(history)) - 1) :
     HistAt(j).ts <= currentTime - JUMP_MS}

\* the indices after the current one whose snapshot is at least 10 s later
\* than the current time
LaterBy10s ==
  {j \in (historyIndex + 1)..(Len(history) - 1) :
     HistAt(j).ts >= currentTime + JUMP_MS}

\* index and view are those of history[j]
ViewIs(j) ==
  /\ historyIndex = j
  /\ orderbook = HistAt(j)
  /\ currentTime = HistAt(j).ts

\* C23: when a qualifying snapshot exists, jump back moves to the largest
\* index below the current one whose timestamp is at most the current time
\* minus 10 s, and jump forward to the smallest index above the current one
\* whose timestamp is at least the current time plus 10 s; the view becomes
\* that snapshot.  Jump back never increases the index and jump forward
\* never decreases it.
C23_JumpTargets ==
  [][/\ lastOp' = "handleJumpBack" =>
          /\ historyIndex' <= historyIndex
          /\ (currentTime # NullTime /\ EarlierBy10s # {}) =>
               \E j \in EarlierBy10s :
                  /\ \A k \in EarlierBy10s : k <= j
                  /\ ViewIs(j)'
     /\ lastOp' = "handleJumpForward" =>
          /\ historyIndex' >= historyIndex
          /\ (currentTime # NullTime /\ LaterBy10s # {}) =>
               \E j \in LaterBy10s :
                  /\ \A k \in LaterBy10s : j <= k
                  /\ ViewIs(j)']_vars

\* C23 witness: a jump back has moved from the last of four snapshots to
\* the third, although the first two also lie at least 10 s back.
C23_Witness ==
  /\ lastOp = "handleJumpBack"
  /\ Len(history) = 4
  /\ historyIndex = 2
  /\ orderbook = HistAt(2)
  /\ HistAt(3).ts - HistAt(2).ts >= JUMP_MS
  /\ HistAt(3).ts - HistAt(0).ts > JUMP_MS

\* the events that start a history load
LoadStarts ==
  \/ lastOp' \in {"EnterReplay", "ChangeTimeRange"}
  \/ lastOp' = "ChangeSymbol" /\ isReplayMode

\* C24: entering replay mode, or changing the instrument or the time range
\* in replay mode, leaves the replay Loading with index 0, an empty
\* history, playing false, an empty view and no error, whatever the state
\* before, and with the request of the new load still in flight.
C24_LoadResets ==
  [][LoadStarts =>
       /\ isReplayMode'
       /\ loading' /\ historyIndex' = 0 /\ history' = <<>> /\ ~isPlaying'
       /\ orderbook' = NullBook /\ error' = NoError
       /\ [sym |-> symbol', aborted |-> FALSE] \in fetches'
       /\ \A f \in fetches : [f EXCEPT !.aborted = TRUE] \in fetches']_vars

\* C24 witness: the time range has just changed while a history loaded
\* earlier was on view, and the replay is Loading again.
C24_Witness ==
  /\ lastOp = "ChangeTimeRange"
  /\ currentTime # NullTime
  /\ loading /\ history = <<>> /\ orderbook = NullBook /\ historyIndex = 0
  /\ \E f \in fetches : ~f.aborted

\* C25: whenever playing is true, the engine is in replay mode, is not
\* Loading, has no error and has a non-empty history.
C25_PlayingOnlyWhenReady ==
  isPlaying => (isReplayMode /\ ~loading /\ error = NoError /\ history # <<>>)

\* window is the result of appending volumes to old and keeping the last
\* ROLLING_WINDOW_SIZE samples
RollsOver(window, old, volumes) ==
  LET all == old \o volumes
      drop == Len(all) - Len(window)
  IN  /\ Len(window) = Min2(Len(all), ROLLING_WINDOW_SIZE)
      /\ \A i \in 1..Len(window) : window[i] = all[drop + i]

\* avg is the arithmetic mean of window, 0 for an empty one
IsMeanOf(avg, window) ==
  IF window = <<>> THEN avg.n = 0
  ELSE avg.n * Len(window) = SumSeq(window) * avg.d

\* the detection effect has run on the snapshot just accepted
Processed ==
  lastOp' = "SocketSnapshot" /\ prevOrderbook' # NullBook

\* C26: after every processed live update each side's rolling window holds
\* at most 100 samples, namely the most recent volumes of that side in
\* arrival order, those of the current snapshot last; the side's rolling
\* average is the mean of these samples, or 0 for an empty window.
C26_RollingWindow ==
  [][Processed =>
       /\ RollsOver(volumeHistoryRef'.bids, volumeHistoryRef.bids,
                    Volumes(orderbook'.bids))
       /\ RollsOver(volumeHistoryRef'.asks, volumeHistoryRef.asks,
                    Volumes(orderbook'.asks))
       /\ IsMeanOf(rollingAvgRef'.bid, volumeHistoryRef'.bids)
       /\ IsMeanOf(rollingAvgRef'.ask, volumeHistoryRef'.asks)]_vars

\* C26 witness: an update has been processed with the ask window full, so
\* that the oldest samples were dropped, while the bid window is not full.
C26_Witness ==
  /\ lastOp = "SocketSnapshot"
  /\ lastProcessedRef = orderbook
  /\ orderbook.asks = GrowAsks(DeepLevels, 1)
  /\ Len(volumeHistoryRef.asks) = ROLLING_WINDOW_SIZE
  /\ Len(volumeHistoryRef.bids) \in 1..(ROLLING_WINDOW_SIZE - 1)
  /\ steps > 0

\* the volumes of the samples held for price p
SampleVolumes(liq, p) == [k \in 1..Len(liq[p]) |-> liq[p][k].volume]

\* the prices an update has to raise an alert for: those of the current
\* snapshot with at least 2 samples inside the window, the largest above
\* 3 times avgVol and the smallest below half of avgVol
SpoofPrices(ob, liq, avg, t) ==
  LET avgVol == AvgVol(avg.bid, avg.ask)
  IN  {p \in Prices(ob.bids) \cup Prices(ob.asks) :
         /\ p \in DOMAIN liq
         /\ Len(liq[p]) >= 2
         /\ \A k \in 1..Len(liq[p]) :
              t - liq[p][k].time < SPOOF_DETECTION_WINDOW
         /\ MaxSeq(SampleVolumes(liq, p)) * avgVol.d > 3 * avgVol.n
         /\ 2 * MinSeq(SampleVolumes(liq, p)) * avgVol.d < avgVol.n}

\* the alerts at the head of the list are the newest: times do not increase
\* along the list
NewestFirst(alerts) ==
  \A i, j \in 1..Len(alerts) : i < j => alerts[i].time >= alerts[j].time

\* C27: the spoof alert list never holds more than 10 alerts and is ordered
\* newest first; the alerts an update emits are placed before all earlier
\* alerts, the alerts beyond the tenth are dropped, and an update that
\* emits none leaves the list unchanged.
C27_SpoofAlertCap ==
  /\ [](Len(spoofAlerts) <= SPOOF_ALERT_CAP /\ NewestFirst(spoofAlerts))
  /\ [][Processed =>
         LET emitted == Cardinality(SpoofPrices(orderbook', recentLiquidityRef',
                                                rollingAvgRef', now))
             n == Min2(emitted, SPOOF_ALERT_CAP)
             kept == Min2(Len(spoofAlerts), SPOOF_ALERT_CAP - n)
         IN  /\ Len(spoofAlerts') = n + kept
             /\ \A i \in 1..n : spoofAlerts'[i].time = now
             /\ \A i \in 1..kept : spoofAlerts'[n + i] = spoofAlerts[i]
             /\ emitted = 0 => UNCHANGED spoofAlerts]_vars

\* C27 witness: an update has emitted alerts at a later time than those the
\* list held, the list is full, and its tail holds the earlier alerts.
C27_Witness ==
  /\ lastOp = "SocketSnapshot"
  /\ Len(spoofAlerts) = SPOOF_ALERT_CAP
  /\ spoofAlerts[1].time = now
  /\ spoofAlerts[SPOOF_ALERT_CAP].time < now

\* C28: a processed update emits a spoof alert for a price exactly when the
\* price is in the current snapshot, at least 2 samples of it remain inside
\* the 3 s window (the one just appended included), the largest retained
\* volume exceeds 3 times avgVol and the smallest is below half of avgVol,
\* avgVol being the mean of the two rolling averages after the update.
C28_SpoofCondition ==
  [][Processed =>
       LET due == SpoofPrices(orderbook', recentLiquidityRef', rollingAvgRef',
                              now)
           n == Min2(Cardinality(due), SPOOF_ALERT_CAP)
           heads == {spoofAlerts'[i].price : i \in 1..n}
       IN  /\ Len(spoofAlerts') >= n
           /\ heads \subseteq due
           /\ Cardinality(heads) = n
           /\ \A i \in 1..n :
                /\ spoofAlerts'[i].time = now
                /\ spoofAlerts'[i].maxVol =
                     MaxSeq(SampleVolumes(recentLiquidityRef',
                                          spoofAlerts'[i].price))
           /\ \A i \in (n + 1)..Len(spoofAlerts') :
                \E j \in 1..Len(spoofAlerts) : spoofAlerts'[i] = spoofAlerts[j]
           /\ due = {} => UNCHANGED spoofAlerts]_vars

\* C28 witness: an update has raised alerts for the prices whose volume
\* fell from 4.0 to 0 within the window, the earlier sample taken before
\* the clock advanced, and none for the other prices of the snapshot.
C28_Witness ==
  /\ lastOp = "SocketSnapshot"
  /\ now > 0
  /\ Len(spoofAlerts) = SpoofLevels
  /\ \A i \in 1..Len(spoofAlerts) :
       /\ spoofAlerts[i].time = now
       /\ spoofAlerts[i].maxVol = 8
       /\ spoofAlerts[i].price \in 101..(100 + SpoofLevels)
       /\ recentLiquidityRef[spoofAlerts[i].price][1].time < now
  /\ orderbook.asks[1].volume = 0

\* C29: every snapshot accepted in live mode is captured into the heatmap
\* window, and its volumes into the rolling windows, exactly once: at its
\* acceptance, the first snapshot after a connect, an instrument change or
\* a return from replay included, and by no other event.
C29_EverySnapshotCaptured ==
  [][/\ (lastOp' = "SocketSnapshot" /\ ~isReplayMode) =>
          /\ heatmapData' =
               SliceLast(Append(heatmapData, HeatCapture(orderbook', now)),
                         HEATMAP_HISTORY_SIZE)
          /\ RollsOver(volumeHistoryRef'.bids, volumeHistoryRef.bids,
                       Volumes(orderbook'.bids))
          /\ RollsOver(volumeHistoryRef'.asks, volumeHistoryRef.asks,
                       Volumes(orderbook'.asks))
     /\ lastOp' # "SocketSnapshot" =>
          /\ heatmapData' \in {heatmapData, <<>>}
          /\ volumeHistoryRef' \in {volumeHistoryRef, EmptyWindows}]_vars

\* the prices a score is asked for: those of the levels in view and captured
QueryPrices ==
  UNION {Prices(heatmapData[k].bids) \cup Prices(heatmapData[k].asks) :
           k \in 1..Len(heatmapData)} \cup
  (IF orderbook = NullBook THEN {}
   ELSE Prices(orderbook.bids) \cup Prices(orderbook.asks))

\* the captures of the window holding a level less than the tick from q
CapturesNear(q) ==
  {k \in 1..Len(heatmapData) :
     \E p \in Prices(heatmapData[k].bids) \cup Prices(heatmapData[k].asks) :
       (IF p < q THEN q - p ELSE p - q) < tickSize}

\* C30: the persistence score of a query price is the number of captures of
\* the heatmap window holding a bid or ask level whose price differs from it
\* by less than the tick size, divided by the length of the window; it lies
\* between 0 and 1 and is 0 when the window is empty
C30_PersistenceScore ==
  \A q \in QueryPrices :
    LET score == getHeatmapIntensity(q)
    IN  /\ score.n >= 0 /\ score.n <= score.d
        /\ Len(heatmapData) = 0 => score.n = 0
        /\ Len(heatmapData) > 0 =>
              score.n * Len(heatmapData) =
                Cardinality(CapturesNear(q)) * score.d

VolumeAt(levels, p) ==
  LET at == {i \in 1..Len(levels) : levels[i].price = p}
  IN  IF at = {} THEN 0 ELSE levels[CHOOSE i \in at : TRUE].volume

\* diff is more than twice the mean volume of levels, 0 for no levels
OverTwiceMean(diff, levels) ==
  IF Len(levels) = 0 THEN diff > 0
  ELSE diff * Len(levels) > 2 * SumSeq(Volumes(levels))

\* the two sides of an update: the levels held now and those held before
SidesOf(ob, prev) ==
  {[side |-> "bid", cur |-> ob.bids, prev |-> prev.bids],
   [side |-> "ask", cur |-> ob.asks, prev |-> prev.asks]}

GrewAt(s, p) ==
  OverTwiceMean(VolumeAt(s.cur, p) - VolumeAt(s.prev, p), s.cur)

ShrankAt(s, p) ==
  OverTwiceMean(VolumeAt(s.prev, p) - VolumeAt(s.cur, p), s.cur)

\* flags holds, for each side, exactly the large changes from prev to ob
FlagsAsClaimed(flags, ob, prev) ==
  \A s \in SidesOf(ob, prev) :
    \A p \in Prices(ob.bids \o ob.asks \o prev.bids \o prev.asks)
             \cup DOMAIN flags :
      /\ GrewAt(s, p) <=>
           (p \in DOMAIN flags
              /\ flags[p] = [type |-> "added", side |-> s.side])
      /\ ShrankAt(s, p) <=>
           (p \in DOMAIN flags
              /\ flags[p] = [type |-> "removed", side |-> s.side])

\* C32: for each side, with avg the mean volume of the side's current levels
\* and a missing level counted as volume 0, a processed update flags a price
\* "added" exactly when its volume grew by more than 2 * avg and "removed"
\* exactly when it shrank by more than 2 * avg; no other price is flagged,
\* and an update without a flagged price leaves the flash set as it was
C32_LargeChangeFlags ==
  [][Processed =>
       IF \E s \in SidesOf(orderbook', prevOrderbook') :
            \E p \in Prices(s.cur \o s.prev) : GrewAt(s, p) \/ ShrankAt(s, p)
       THEN FlagsAsClaimed(flashingPrices', orderbook', prevOrderbook')
       ELSE flashingPrices' = flashingPrices]_vars

\* C33: whenever both ladders are non-empty the spread and the mid price are
\* numbers, the best ask bucket price minus the best bid bucket price and
\* the mean of the two, also when the best bid bucket price is 0
C33_SpreadAndMidNumeric ==
  LET L == Ladders
  IN  (L.bids # <<>> /\ L.asks # <<>>) =>
        LET ask == L.asks[1].price
            bid == L.bids[Len(L.bids)].price
        IN  /\ spread # NotAvailable
            /\ midPrice # NotAvailable
            /\ spread = formatPrice(DSub(ask, bid))
            /\ midPrice = formatPrice([neg |-> FALSE,
                                       abs |-> DDiv(DAdd(ask, bid),
                                                    NumberOf(2))])

\* the timer of the update that raised the flags shown: the one set last
OwnTimer == CHOOSE t \in flashTimers : \A u \in flashTimers : u <= t

\* C34: flags are cleared only by the timer of the update that raised them,
\* or replaced by the flags of a later update; the timer of an earlier
\* update never clears the flags of a later one
C34_ClearedByOwnTimer ==
  [][(flashingPrices # EmptyMap /\ flashingPrices' # flashingPrices) =>
       \/ /\ lastOp' = "FlashTimeout"
          /\ flashingPrices' = EmptyMap
          /\ flashTimers' = flashTimers \ {OwnTimer}
       \/ /\ Processed
          /\ flashingPrices' # EmptyMap]_vars

\* C35: in replay mode, whenever the replay is not loading and the history
\* is non-empty, the index is a position of the history and the view is the
\* snapshot at that position, whatever events came before, those of sockets
\* opened in live mode included
C35_ViewIsHistoryAtIndex ==
  (isReplayMode /\ ~loading /\ history # <<>>) =>
    /\ HasHist(historyIndex)
    /\ orderbook = HistAt(historyIndex)

\* the request of the current history load has no outcome yet
FetchInFlight == \E f \in fetches : ~f.aborted

\* C36: in replay mode the loading flag stays true from the start of a fetch
\* until its outcome is applied, so the empty state is never shown while a
\* fetch is in flight, whatever socket events arrive; the loading state is
\* left only by the success or the failure of the fetch
C36_LoadingUntilOutcome ==
  /\ []((isReplayMode /\ FetchInFlight) => (Loading /\ ~Empty))
  /\ [][(Loading /\ isReplayMode' /\ ~loading') =>
          lastOp' \in {"FetchOk", "FetchOkNoArray", "FetchFailed"}]_vars

\* C37: at most one socket, connecting or open, exists at any time, since
\* every instrument or mode change closes the socket of the context left,
\* whatever its connection state; no socket exists in replay mode
C37_OneLiveSocket ==
  /\ Cardinality(sockets) <= 1
  /\ isReplayMode => sockets = {}

\* the levels of orders a range of pct percent keeps: those whose price p
\* (in hundredths) has |p - mid| <= mid * pct / 100, mid being half the sum
\* of the best prices of ob, a missing side counting 0
KeptByRange(orders, ob, pct) ==
  LET sum == (IF ob.bids # <<>> THEN ob.bids[1].price ELSE 0)
               + (IF ob.asks # <<>> THEN ob.asks[1].price ELSE 0)
      dist(p) == IF 2 * p >= sum THEN 2 * p - sum ELSE sum - 2 * p
      in == {i \in 1..Len(orders) :
               pct >= 20 \/ dist(orders[i].price) * 100 <= sum * pct}
  IN  [k \in 1..Cardinality(in) |->
         orders[CHOOSE i \in in : Cardinality({j \in in : j <= i}) = k]]

\* ladder holds the limit buckets of all that are closest to the best price
ClosestBuckets(ladder, all, limit, isBid) ==
  LET shown == {[price |-> ladder[i].price, volume |-> ladder[i].volume] :
                  i \in 1..Len(ladder)}
      every == {[price |-> all[i].price, volume |-> all[i].volume] :
                  i \in 1..Len(all)}
  IN  /\ Len(ladder) = Min2(limit, Len(all))
      /\ shown \subseteq every
      /\ \A x \in every \ shown : \A y \in shown :
           IF isBid THEN DLess(x.price, y.price) ELSE DLess(y.price, x.price)

\* C38: with a range below 20 percent the ladders are built from exactly the
\* raw levels within that percentage of the mid price of the raw best prices
\* (a missing side counting as 0), with a range of 20 percent or more from
\* all levels; each ladder holds at most depth buckets, those closest to the
\* best price
C38_RangeThenDepth ==
  LET L == Ladders
  IN  /\ ClosestBuckets(L.bids,
                        aggregateByTickSize(
                          KeptByRange(orderbook.bids, orderbook,
                                      depthRangePercent), tickSize, TRUE),
                        depth, TRUE)
      /\ ClosestBuckets(L.asks,
                        aggregateByTickSize(
                          KeptByRange(orderbook.asks, orderbook,
                                      depthRangePercent), tickSize, FALSE),
                        depth, FALSE)

====
